---------------------------- MODULE Spec2Model ----------------------------
(***************************************************************************)
(* ClearBound generation API: the decision engine, the package resolver,   *)
(* the generation handlers and the deterministic postprocessor, modelled   *)
(* from the JavaScript sources.                                            *)
(*                                                                         *)
(* A text is a sequence of runs <<class, count>>: "c" a non-whitespace     *)
(* character, "s" a blank, "n" a line feed, "r" a carriage return.  Length,*)
(* trim, slice, split and join only depend on these classes, so the        *)
(* lengths the code compares against its budgets are exact.                *)
(***************************************************************************)
EXTENDS Integers, Sequences, FiniteSets, TLC

VARIABLES
    handler,    \* the entry point serving the request
    req,        \* the request (method, transport defect, state fields)
    pc,         \* the handler's position: the await it is suspended on
    calls,      \* generator calls issued for this request
    nextSrc,    \* identity given to the next model output
    failed,     \* identities of the model outputs that failed validation
    stage,      \* values a handler keeps across awaits
    resp,       \* the response sent, <<>> before that
    ein,        \* decision engine: [ver, input]
    eout,       \* decision engine: the decision once computed
    now,        \* template cache: the clock (Date.now())
    cache,      \* template cache: the entry stored for one key, <<>> if none
    remote,     \* template store: the text it serves for that key
    loads       \* template cache: the loads in flight for that key

cvars == <<now, cache, remote, loads>>
hvars == <<handler, req, pc, calls, nextSrc, failed, stage, resp, ein, eout>>

vars == <<handler, req, pc, calls, nextSrc, failed, stage, resp, ein, eout,
          now, cache, remote, loads>>

-----------------------------------------------------------------------------
(* Texts *)

Whitespace == {"s", "n", "r"}

\* The recursions below halve the text, so their depth stays logarithmic.
RECURSIVE TLen(_)
TLen(t) ==
    IF Len(t) = 0 THEN 0
    ELSE IF Len(t) = 1 THEN t[1][2]
    ELSE LET h == Len(t) \div 2
         IN TLen(SubSeq(t, 1, h)) + TLen(SubSeq(t, h + 1, Len(t)))

\* Concatenation of two canonical texts (no empty run, no two adjacent runs
\* of one class).
Cat(a, b) ==
    IF a = <<>> THEN b
    ELSE IF b = <<>> THEN a
    ELSE IF a[Len(a)][1] = b[1][1]
         THEN SubSeq(a, 1, Len(a) - 1)
                  \o <<(<<b[1][1], a[Len(a)][2] + b[1][2]>>)>>
                  \o SubSeq(b, 2, Len(b))
    ELSE a \o b

RECURSIVE Canon(_)
Canon(t) ==
    IF Len(t) = 0 THEN <<>>
    ELSE IF Len(t) = 1 THEN (IF t[1][2] = 0 THEN <<>> ELSE t)
    ELSE LET h == Len(t) \div 2
         IN Cat(Canon(SubSeq(t, 1, h)), Canon(SubSeq(t, h + 1, Len(t))))

TrimStart(t) ==
    LET keep == {i \in 1..Len(t) : t[i][1] \notin Whitespace}
    IN IF keep = {} THEN <<>>
       ELSE SubSeq(t, CHOOSE i \in keep : \A j \in keep : i <= j, Len(t))

TrimEnd(t) ==
    LET keep == {i \in 1..Len(t) : t[i][1] \notin Whitespace}
    IN IF keep = {} THEN <<>>
       ELSE SubSeq(t, 1, CHOOSE i \in keep : \A j \in keep : i >= j)

Trim(t) == TrimEnd(TrimStart(t))

\* String.prototype.slice(0, n)
Slice(t, n) ==
    LET whole == {k \in 0..Len(t) : TLen(SubSeq(t, 1, k)) <= n}
        k == CHOOSE i \in whole : \A j \in whole : i >= j
        rest == n - TLen(SubSeq(t, 1, k))
    IN IF n <= 0 THEN <<>>
       ELSE IF k = Len(t) \/ rest = 0 THEN SubSeq(t, 1, k)
       ELSE SubSeq(t, 1, k) \o <<(<<t[k + 1][1], rest>>)>>

\* String.prototype.replace(/\r\n/g, "\n")
ReplaceCrLf(t) ==
    Canon([i \in 1..Len(t) |->
              IF t[i][1] = "r" /\ i < Len(t) /\ t[i + 1][1] = "n"
              THEN <<"r", t[i][2] - 1>> ELSE t[i]])

\* String.prototype.split("\n")
RECURSIVE SplitLines(_)
SplitLines(t) ==
    IF Len(t) = 0 THEN <<(<<>>)>>
    ELSE IF Len(t) = 1
         THEN (IF t[1][1] = "n" THEN [i \in 1..(t[1][2] + 1) |-> <<>>] ELSE <<t>>)
    ELSE LET h == Len(t) \div 2
             sa == SplitLines(SubSeq(t, 1, h))
             sb == SplitLines(SubSeq(t, h + 1, Len(t)))
         IN SubSeq(sa, 1, Len(sa) - 1) \o <<sa[Len(sa)] \o sb[1]>> \o SubSeq(sb, 2, Len(sb))

NL == <<(<<"n", 1>>)>>
NLNL == <<(<<"n", 2>>)>>
SP == <<(<<"s", 1>>)>>

\* Array.prototype.join("\n")
RECURSIVE JoinLines(_)
JoinLines(ls) ==
    IF Len(ls) = 0 THEN <<>>
    ELSE IF Len(ls) = 1 THEN ls[1]
    ELSE Cat(Cat(ls[1], NL), JoinLines(SubSeq(ls, 2, Len(ls))))

\* .map((x) => x.trim()).filter(Boolean)
TrimmedNonEmpty(ls) ==
    SelectSeq([i \in 1..Len(ls) |-> Trim(ls[i])], LAMBDA x : x # <<>>)

\* A sentence of single-spaced words, given by the lengths of its words.
Sentence(ws) ==
    [i \in 1..(IF Len(ws) = 0 THEN 0 ELSE 2 * Len(ws) - 1) |->
        IF i % 2 = 1 THEN <<"c", ws[(i + 1) \div 2]>> ELSE <<"s", 1>>]

normalizeNewlines(s) == Trim(ReplaceCrLf(s))

-----------------------------------------------------------------------------
(* Length policy and static texts of the two-call handler (api/generate.js) *)

MIN_MESSAGE_CHARS == 380
MIN_EMAIL_CHARS == 700
MIN_NOTE_CHARS == 240
ANALYSIS_LINES == 3
ANALYSIS_TOTAL_MIN_CHARS == 360
MAX_MESSAGE_CHARS == 700
MAX_EMAIL_CHARS == 1100
MAX_NOTE_CHARS == 420
MAX_ANALYSIS_CHARS == 560

\* Each static sentence is given by the lengths of its words.
FallbackMessageText ==
    Sentence(<<2, 1, 1, 6, 2, 5, 2, 3, 5, 2, 4, 2, 8, 5, 2, 4, 9, 3, 4, 2, 7, 3,
               7, 11, 5, 8, 5, 2, 6, 2, 4, 3, 4, 4, 2, 4, 5, 3, 4, 2, 3, 5, 4>>)

FallbackEmailText ==
    Cat(Sentence(<<8, 5, 9>>), Cat(NLNL,
    Cat(Sentence(<<2, 1>>), Cat(NLNL,
    Cat(Sentence(<<3, 7, 2, 7, 3, 5, 2, 2, 3, 4, 7, 5, 8, 5, 2, 4, 9, 3, 4, 2, 7,
                   3, 7, 11, 3, 4, 5>>), Cat(NLNL,
    Cat(Sentence(<<5, 3, 6, 7, 3, 6, 3, 4, 4, 2, 11>>), Cat(NLNL,
    Cat(Sentence(<<5, 4>>), Cat(NL, Sentence(<<5, 5>>)))))))))))

FallbackNoteText ==
    Sentence(<<4, 5, 3, 4, 4, 3, 7, 2, 10, 6, 3, 6, 2, 5, 3, 5, 7, 3, 6, 10, 5,
               7, 10, 5>>)

RiskPostureLine == Sentence(<<4, 8, 11, 7, 7, 2, 10, 5, 3, 6, 5, 2, 12>>)
StrategyLine == Sentence(<<9, 3, 9, 6, 8, 9, 3, 12, 3, 5, 3, 8, 8>>)
NextStepLine == Sentence(<<4, 5, 3, 7, 2, 7, 7, 1, 13, 2, 6, 14, 3, 11>>)

FallbackAnalysisText == JoinLines(<<RiskPostureLine, StrategyLine, NextStepLine>>)

CatchAllSentence == Sentence(<<2, 7, 1, 6, 3, 2, 6, 5, 3, 4, 2, 3>>)

AnalysisSuffix(idx) ==
    IF idx = 0 THEN Sentence(<<4, 6, 4, 2, 7, 3, 6, 5, 3, 20>>)
    ELSE IF idx = 1 THEN Sentence(<<2, 8, 5, 4, 7, 6, 3, 5, 3, 16, 4, 4, 2, 8>>)
    ELSE Sentence(<<3, 8, 2, 8, 3, 11, 5, 5, 4, 3, 4, 7>>)

MessageAddon == Sentence(<<3, 8, 4, 2, 2, 2, 3, 4, 7, 3, 5, 9, 5, 8>>)
EmailAddon == Sentence(<<2, 3, 3, 7, 3, 7, 3, 7, 1, 3, 7, 10, 5, 3, 3, 7, 8>>)
NoteAddon ==
    Sentence(<<4, 4, 8, 3, 6, 3, 3, 3, 7, 2, 5, 2, 5, 8, 6, 6, 3, 4, 3, 3, 7, 4, 5>>)

-----------------------------------------------------------------------------
(* Postprocessor (api/generate.js): MIN/MAX without a further model call *)

ensureMinChars(text, minChars, addon) ==
    LET t == normalizeNewlines(text)
        pad == normalizeNewlines(addon)
        t2 == IF t # <<>> THEN Cat(Cat(t, NLNL), pad) ELSE pad
    IN IF TLen(t) >= minChars THEN t
       ELSE IF TLen(t2) < minChars THEN Cat(Cat(t2, NLNL), CatchAllSentence)
       ELSE t2

enforceMaxChars(text, maxChars) ==
    LET t == normalizeNewlines(text)
    IN IF TLen(t) > maxChars THEN Trim(Slice(t, maxChars)) ELSE t

RECURSIVE FillAnalysisLines(_)
FillAnalysisLines(out) ==
    IF Len(out) >= ANALYSIS_LINES THEN out
    ELSE IF Len(out) = 0 THEN FillAnalysisLines(Append(out, RiskPostureLine))
    ELSE IF Len(out) = 1 THEN FillAnalysisLines(Append(out, StrategyLine))
    ELSE FillAnalysisLines(Append(out, NextStepLine))

Min(a, b) == IF a <= b THEN a ELSE b

enforceAnalysis3LinesV2(analysisText) ==
    LET t0 == normalizeNewlines(analysisText)
        lines == TrimmedNonEmpty(SplitLines(t0))
        out == FillAnalysisLines(SubSeq(lines, 1, Min(ANALYSIS_LINES, Len(lines))))
        t1 == JoinLines(SubSeq(out, 1, 3))
        again == SplitLines(t1)
        first3 == SubSeq(again, 1, Min(3, Len(again)))
        fixed == [i \in 1..Len(first3) |->
                     Cat(Cat(first3[i], SP), AnalysisSuffix(i - 1))]
        t2 == IF TLen(t1) < ANALYSIS_TOTAL_MIN_CHARS THEN JoinLines(fixed) ELSE t1
    IN enforceMaxChars(t2, MAX_ANALYSIS_CHARS)

-----------------------------------------------------------------------------
(* Decision engine.  "compute" is api/engine/compute.js as of the V3-native *)
(* revision (unnamed/part_008); "index" is the copy in api/engine/index.js, *)
(* which reads the V2 front fields only.  A missing field is "".            *)

\* typeof v === "string" && v.trim() ? v.trim() : null, on the tokens the
\* model sends: " High " is the one padded, capitalised token.
clampStr(v) == IF v = " High " THEN "High" ELSE v

\* clampStr, then toLowerCase
normToken(v) == IF clampStr(v) = "High" THEN "high" ELSE clampStr(v)

normTokens(arr) == {normToken(v) : v \in arr} \ {""}

\* weights with the continuity weights in the opposite order
weightsDescending ==
    [one_time |-> 2, short_term |-> 1, ongoing |-> 0, repeat |-> 1,
     emotional_fallout |-> 1, reputation_impact |-> 2,
     documentation_sensitivity |-> 2, they_have_leverage |-> 3]

weights ==
    [one_time |-> 0, short_term |-> 1, ongoing |-> 2, repeat |-> 1,
     emotional_fallout |-> 1, reputation_impact |-> 2,
     documentation_sensitivity |-> 2, they_have_leverage |-> 3]

continuityFromFront(cont) ==
    IF cont = "high" THEN "ongoing"
    ELSE IF cont = "mid" THEN "short_term"
    ELSE IF cont = "low" THEN "one_time" ELSE ""

\* api/engine/index.js normalizeFlags
normalizeFlagsIndex(input) ==
    LET impact == clampStr(input.impact)
        cont == clampStr(input.cont)
        situation_type == clampStr(input.sit)
        concerns == input.concerns
        continuity_bucket == continuityFromFront(cont)
        documentation_sensitivity ==
            "document" \in concerns \/ situation_type = "official_documented"
        reputation_impact == "impact_work" \in concerns
        emotional_fallout == impact = "high"
        leverage_flag == FALSE
    IN [continuity_bucket |-> continuity_bucket,
        ongoing_flag |-> continuity_bucket = "ongoing",
        repeat_flag |-> "repeat" \in concerns,
        leverage_flag |-> leverage_flag,
        documentation_sensitivity |-> documentation_sensitivity,
        reputation_impact |-> reputation_impact,
        emotional_fallout |-> emotional_fallout,
        they_have_leverage |-> leverage_flag]

\* api/engine/compute.js normalizeFlags
normalizeFlags(input) ==
    LET impact == normToken(input.impact)
        contRaw == normToken(input.cont)
        situation_type == normToken(input.sit)
        concerns == normTokens(input.concerns)
        continuityV3 == normToken(input.continuity)
        exposureKeys == normTokens(input.exposure)
        continuity_bucket ==
            IF continuityV3 \in {"ongoing", "short_term", "one_time"}
            THEN continuityV3 ELSE continuityFromFront(contRaw)
        repeat_flag ==
            IF input.happened_before = "true" THEN TRUE
            ELSE IF input.happened_before = "false" THEN FALSE
            ELSE "repeat" \in concerns
        leverage_flag ==
            IF input.leverage_flag = "true" THEN TRUE
            ELSE IF input.leverage_flag = "false" THEN FALSE
            ELSE "leverage" \in concerns \/ "they_have_leverage" \in concerns
    IN [continuity_bucket |-> continuity_bucket,
        ongoing_flag |-> continuity_bucket = "ongoing",
        repeat_flag |-> repeat_flag,
        leverage_flag |-> leverage_flag,
        documentation_sensitivity |->
            \/ "documentation_sensitivity" \in exposureKeys
            \/ "document" \in concerns
            \/ situation_type = "official_documented",
        reputation_impact |->
            \/ "reputation_impact" \in exposureKeys
            \/ "reputation" \in concerns
            \/ "impact_work" \in concerns,
        emotional_fallout |->
            "emotional_fallout" \in exposureKeys \/ impact = "high",
        they_have_leverage |->
            "they_have_leverage" \in exposureKeys \/ leverage_flag]

\* calcRiskScore counting the true flags instead of weighting them
calcRiskScoreUnweighted(flags) ==
    LET continuity_weight ==
            IF flags.continuity_bucket # "" THEN weights[flags.continuity_bucket] ELSE 0
        repeat_weight == IF flags.repeat_flag THEN weights.repeat ELSE 0
        exposure_weight_sum ==
            (IF flags.emotional_fallout THEN 1 ELSE 0)
            + (IF flags.reputation_impact THEN 1 ELSE 0)
            + (IF flags.documentation_sensitivity THEN 1 ELSE 0)
            + (IF flags.they_have_leverage THEN 1 ELSE 0)
    IN continuity_weight + repeat_weight + exposure_weight_sum

calcRiskScore(flags) ==
    LET continuity_weight ==
            IF flags.continuity_bucket # "" THEN weights[flags.continuity_bucket] ELSE 0
        repeat_weight == IF flags.repeat_flag THEN weights.repeat ELSE 0
        exposure_weight_sum ==
            (IF flags.emotional_fallout THEN weights.emotional_fallout ELSE 0)
            + (IF flags.reputation_impact THEN weights.reputation_impact ELSE 0)
            + (IF flags.documentation_sensitivity
               THEN weights.documentation_sensitivity ELSE 0)
            + (IF flags.they_have_leverage THEN weights.they_have_leverage ELSE 0)
    IN continuity_weight + repeat_weight + exposure_weight_sum

\* mapRiskLevel with both band boundaries taken as exclusive
mapRiskLevelExclusive(score) ==
    IF score > 6 THEN "high" ELSE IF score > 3 THEN "moderate" ELSE "low"

mapRiskLevel(score) ==
    IF score >= 6 THEN "high" ELSE IF score >= 3 THEN "moderate" ELSE "low"

\* Math.max(min, Math.min(max, Math.trunc(v))) on an integer
clampInt(n, lo, hi) == IF n < lo THEN lo ELSE IF n > hi THEN hi ELSE n

\* pages/api/generate.js: the score is clamped to 0..999 first
mapRiskLevelPages(score) ==
    LET s == clampInt(score, 0, 999)
    IN IF s <= 2 THEN "low" ELSE IF s <= 5 THEN "moderate" ELSE "high"

calcRecordSafeLevel(flags) ==
    IF flags.documentation_sensitivity THEN 2
    ELSE IF flags.reputation_impact THEN 1 ELSE 0

\* calcDirectionSuggestion whose first branch does not look at the risk level
calcDirectionSuggestionAnyRisk(risk_level, record_safe_level, flags) ==
    IF flags.continuity_bucket = "one_time" /\ ~flags.repeat_flag
    THEN "maintain"
    ELSE IF /\ record_safe_level = 2
            /\ flags.leverage_flag
            /\ flags.ongoing_flag
            /\ flags.repeat_flag
    THEN "disengage"
    ELSE "reset"

\* calcDirectionSuggestion without its final return
calcDirectionSuggestionNoDefault(risk_level, record_safe_level, flags) ==
    IF risk_level = "low" /\ flags.continuity_bucket = "one_time" /\ ~flags.repeat_flag
    THEN "maintain"
    ELSE IF /\ record_safe_level = 2
            /\ flags.leverage_flag
            /\ flags.ongoing_flag
            /\ flags.repeat_flag
    THEN "disengage"
    ELSE "undefined"

calcDirectionSuggestion(risk_level, record_safe_level, flags) ==
    IF risk_level = "low" /\ flags.continuity_bucket = "one_time" /\ ~flags.repeat_flag
    THEN "maintain"
    ELSE IF /\ record_safe_level = 2
            /\ flags.leverage_flag
            /\ flags.ongoing_flag
            /\ flags.repeat_flag
    THEN "disengage"
    ELSE "reset"

calcToneRiskFirst(risk_level, record_safe_level) ==
    IF risk_level = "high" THEN "neutral"
    ELSE IF record_safe_level = 2 THEN "formal"
    ELSE IF risk_level = "moderate" THEN "neutral"
    ELSE "calm"

calcTone(risk_level, record_safe_level) ==
    IF record_safe_level = 2 THEN "formal"
    ELSE IF risk_level = "high" THEN "neutral"
    ELSE IF risk_level = "moderate" THEN "neutral"
    ELSE "calm"

calcDetail(risk_level, record_safe_level, flags) ==
    IF record_safe_level = 2 THEN "detailed"
    ELSE IF risk_level = "moderate" \/ risk_level = "high" \/ flags.ongoing_flag
    THEN "standard"
    ELSE "concise"

calcCandor(risk_level) ==
    IF risk_level = "high" THEN "high"
    ELSE IF risk_level = "moderate" THEN "moderate" ELSE "low"

\* buildConstraints that turns record-safe mode on from level 1
buildConstraintsFromLevelOne(risk_level, record_safe_level) ==
    [tone_soften_if_high_risk |-> risk_level = "high",
     record_safe_mode |-> record_safe_level >= 1,
     forbidden_patterns_enabled |-> TRUE]

buildConstraints(risk_level, record_safe_level) ==
    [tone_soften_if_high_risk |-> risk_level = "high",
     record_safe_mode |-> record_safe_level = 2,
     forbidden_patterns_enabled |-> TRUE]

\* computeEngineDecisions(input) of either copy; opts is never passed by a
\* caller, so include_direction_suggestion keeps its default (true).
computeEngineDecisions(ver, input) ==
    LET flags == IF ver = "index" THEN normalizeFlagsIndex(input)
                 ELSE normalizeFlags(input)
        risk_score == calcRiskScore(flags)
        risk_level == mapRiskLevel(risk_score)
        record_safe_level == calcRecordSafeLevel(flags)
    IN [risk_level |-> risk_level,
        record_safe_level |-> record_safe_level,
        direction_suggestion |->
            calcDirectionSuggestion(risk_level, record_safe_level, flags),
        tone_recommendation |-> calcTone(risk_level, record_safe_level),
        detail_recommendation |-> calcDetail(risk_level, record_safe_level, flags),
        insight_candor_level |-> calcCandor(risk_level),
        constraints |-> buildConstraints(risk_level, record_safe_level),
        risk_score |-> risk_score,
        flags |-> flags]

\* src/api/engine/compute.js, the engine over the front wizard state
mapContinuity(v) ==
    IF v = "high" THEN "ongoing" ELSE IF v = "mid" THEN "short_term" ELSE "one_time"

weightContinuity(c) == IF c = "ongoing" THEN 2 ELSE IF c = "short_term" THEN 1 ELSE 0

directionSuggestion(risk_level, record_safe_level, continuity, repeat_flag, leverage_flag, ongoing_flag) ==
    IF risk_level = "low" /\ continuity = "one_time" /\ ~repeat_flag THEN "maintain"
    ELSE IF record_safe_level = 2 /\ leverage_flag /\ ongoing_flag /\ repeat_flag
    THEN "disengage"
    ELSE "reset"

\* compute(state): the raw values are compared without trimming; there is
\* no emotional_fallout flag in this engine (FALSE in the flags record) and
\* leverage_flag is the constant false.
compute(state) ==
    LET continuity == mapContinuity(state.cont)
        continuity_weight == weightContinuity(continuity)
        repeat_flag == "repeat" \in state.concerns
        doc_flag == "document" \in state.concerns
        reputation_impact == state.impact = "high"
        ongoing_flag == continuity = "ongoing"
        leverage_flag == FALSE
        repeat_weight == IF repeat_flag THEN 1 ELSE 0
        reputation_weight == IF reputation_impact THEN 2 ELSE 0
        documentation_weight == IF doc_flag THEN 2 ELSE 0
        leverage_weight == IF leverage_flag THEN 3 ELSE 0
        risk_score == continuity_weight + repeat_weight + reputation_weight
                        + documentation_weight + leverage_weight
        risk_level == mapRiskLevel(risk_score)
        record_safe_level == IF doc_flag THEN 2 ELSE IF reputation_impact THEN 1 ELSE 0
        flags == [continuity_bucket |-> continuity,
                  ongoing_flag |-> ongoing_flag,
                  repeat_flag |-> repeat_flag,
                  leverage_flag |-> leverage_flag,
                  documentation_sensitivity |-> doc_flag,
                  reputation_impact |-> reputation_impact,
                  emotional_fallout |-> FALSE,
                  they_have_leverage |-> leverage_flag]
    IN [risk_level |-> risk_level,
        record_safe_level |-> record_safe_level,
        direction_suggestion |->
            directionSuggestion(risk_level, record_safe_level, continuity,
                                repeat_flag, leverage_flag, ongoing_flag),
        tone_recommendation |-> calcTone(risk_level, record_safe_level),
        detail_recommendation |-> calcDetail(risk_level, record_safe_level, flags),
        insight_candor_level |-> calcCandor(risk_level),
        constraints |-> buildConstraints(risk_level, record_safe_level),
        risk_score |-> clampInt(risk_score, 0, 99),
        flags |-> flags]

\* src/unnamed/part_007, the engine over the vNext backend state.  exposure
\* is the array the code pushes to; a {value, reason} pair is represented by
\* its value, the reason being one fixed sentence per branch.
WEIGHTS ==
    [continuity |-> [one_time |-> 0, short_term |-> 1, ongoing |-> 2],
     repeat_yes |-> 1,
     exposure |-> [emotional_fallout |-> 1, reputation_impact |-> 2,
                   documentation_sensitivity |-> 2, they_have_leverage |-> 3]]

RECURSIVE SumExposure(_, _)
SumExposure(arr, table) ==
    IF arr = <<>> THEN 0
    ELSE (IF Head(arr) \in DOMAIN table THEN table[Head(arr)] ELSE 0)
            + SumExposure(Tail(arr), table)

InArray(arr, x) == \E i \in 1..Len(arr) : arr[i] = x

\* the array as the flags record the other engines return
ExposureFlags(arr) ==
    [k \in {"emotional_fallout", "reputation_impact", "documentation_sensitivity",
            "they_have_leverage"} |-> InArray(arr, k)]

deriveInternalFlags(input) ==
    LET continuity == continuityFromFront(input.cont)
        repeat_flag == "repeat" \in input.concerns
        doc_flag == "document" \in input.concerns
        impactRaw == input.impact
        exposure ==
            (IF doc_flag THEN <<"documentation_sensitivity">> ELSE <<>>)
            \o (IF impactRaw = "high" THEN <<"emotional_fallout">> ELSE <<>>)
            \o (IF input.relationship \in {"social", "peripheral"} /\ impactRaw = "high"
                THEN <<"reputation_impact">> ELSE <<>>)
    IN [continuity |-> continuity,
        exposure |-> exposure,
        repeat_flag |-> repeat_flag,
        doc_flag |-> doc_flag,
        leverage_flag |-> FALSE,
        ongoing_flag |-> continuity = "ongoing",
        direction_unsure |-> input.direction_unsure]

pickDirectionSuggestion(risk_level, record_safe_level, flags) ==
    IF ~flags.direction_unsure THEN "null"
    ELSE IF risk_level = "low" /\ flags.continuity = "one_time" /\ ~flags.repeat_flag
    THEN "maintain"
    ELSE IF /\ record_safe_level = 2
            /\ flags.leverage_flag
            /\ flags.ongoing_flag
            /\ flags.repeat_flag
    THEN "disengage"
    ELSE "reset"

computeEngineDecision(input) ==
    LET flags == deriveInternalFlags(input)
        risk_score ==
            (IF flags.continuity # "" THEN WEIGHTS.continuity[flags.continuity] ELSE 0)
            + (IF flags.repeat_flag THEN WEIGHTS.repeat_yes ELSE 0)
            + SumExposure(flags.exposure, WEIGHTS.exposure)
        risk_level == mapRiskLevel(risk_score)
        record_safe_level ==
            IF InArray(flags.exposure, "documentation_sensitivity") THEN 2
            ELSE IF InArray(flags.exposure, "reputation_impact") THEN 1 ELSE 0
    IN [risk_level |-> risk_level,
        record_safe_level |-> record_safe_level,
        direction_suggestion |->
            pickDirectionSuggestion(risk_level, record_safe_level, flags),
        tone_recommendation |-> calcTone(risk_level, record_safe_level),
        detail_recommendation |->
            IF record_safe_level = 2 THEN "detailed"
            ELSE IF risk_level # "low" \/ flags.ongoing_flag THEN "standard"
            ELSE "concise",
        insight_candor_level |-> calcCandor(risk_level),
        constraints |-> buildConstraints(risk_level, record_safe_level),
        risk_score |-> risk_score,
        flags |-> [continuity_bucket |-> flags.continuity,
                   ongoing_flag |-> flags.ongoing_flag,
                   repeat_flag |-> flags.repeat_flag,
                   leverage_flag |-> flags.leverage_flag]
                  @@ ExposureFlags(flags.exposure)]

\* src/pages/api/generate.js, the legacy engine.  The continuity in the
\* request is weighted raw; impact is not an exposure key here.
computeRiskScore(continuity, repeat_flag, exposure) ==
    LET continuity_weight ==
            IF continuity \in {"high", "ongoing"} THEN 2
            ELSE IF continuity \in {"mid", "short_term"} THEN 1 ELSE 0
        repeat_weight == IF repeat_flag THEN 1 ELSE 0
    IN continuity_weight + repeat_weight + SumExposure(exposure, WEIGHTS.exposure)

computeDirectionSuggestion(enabled, risk_level, continuity_norm, repeat_flag, record_safe_level, leverage_flag, ongoing_flag) ==
    IF ~enabled THEN "null"
    ELSE IF risk_level = "low" /\ continuity_norm = "one_time" /\ ~repeat_flag
    THEN "maintain"
    ELSE IF record_safe_level = 2 /\ leverage_flag /\ ongoing_flag /\ repeat_flag
    THEN "disengage"
    ELSE "reset"

computeEngineDecisionsPages(context) ==
    LET continuity_norm ==
            IF context.cont \in {"low", "one_time"} THEN "one_time"
            ELSE IF context.cont \in {"mid", "short_term"} THEN "short_term"
            ELSE IF context.cont \in {"high", "ongoing"} THEN "ongoing" ELSE ""
        repeat_flag == "repeat" \in context.concerns
        doc_flag == "document" \in context.concerns
        leverage_flag == FALSE
        ongoing_flag == continuity_norm = "ongoing"
        exposure ==
            (IF doc_flag THEN <<"documentation_sensitivity">> ELSE <<>>)
            \o (IF leverage_flag THEN <<"they_have_leverage">> ELSE <<>>)
        risk_score == computeRiskScore(context.cont, repeat_flag, exposure)
        risk_level == mapRiskLevelPages(risk_score)
        record_safe_level == IF doc_flag THEN 2 ELSE 0
    IN [risk_level |-> risk_level,
        record_safe_level |-> record_safe_level,
        direction_suggestion |->
            computeDirectionSuggestion(context.direction_unsure, risk_level,
                continuity_norm, repeat_flag, record_safe_level, leverage_flag,
                ongoing_flag),
        tone_recommendation |-> calcTone(risk_level, record_safe_level),
        detail_recommendation |->
            IF record_safe_level = 2 THEN "detailed"
            ELSE IF risk_level \in {"moderate", "high"} \/ ongoing_flag THEN "standard"
            ELSE "concise",
        insight_candor_level |-> calcCandor(risk_level),
        constraints |-> buildConstraints(risk_level, record_safe_level),
        risk_score |-> risk_score,
        flags |-> [continuity_bucket |-> continuity_norm,
                   ongoing_flag |-> ongoing_flag,
                   repeat_flag |-> repeat_flag,
                   leverage_flag |-> leverage_flag]
                  @@ ExposureFlags(exposure)]

-----------------------------------------------------------------------------
(* JSON values, objects, requests and responses *)

\* A value remembers which model output it came from (src, 0 for text the
\* server authored); tag names a literal the server wrote.
Str(t, src) == [ty |-> "str", txt |-> t, src |-> src, tag |-> ""]
Lit(tag) == [ty |-> "str", txt |-> <<>>, src |-> 0, tag |-> tag]
Bool(b) == [ty |-> IF b THEN "true" ELSE "false", txt |-> <<>>, src |-> 0, tag |-> ""]
Null == [ty |-> "null", txt |-> <<>>, src |-> 0, tag |-> ""]
Num(src) == [ty |-> "num", txt |-> <<>>, src |-> src, tag |-> ""]
Nested(tag, src) == [ty |-> "obj", txt |-> <<>>, src |-> src, tag |-> tag]

EmptyObj == [k \in {} |-> Null]
Without(obj, ks) == [k \in DOMAIN obj \ ks |-> obj[k]]
With(obj, key, v) == [k \in DOMAIN obj \cup {key} |-> IF k = key THEN v ELSE obj[k]]
Spread(a, b) == [k \in DOMAIN a \cup DOMAIN b |-> IF k \in DOMAIN b THEN b[k] ELSE a[k]]
Get(obj, key) == IF key \in DOMAIN obj THEN obj[key] ELSE Null

\* JavaScript truthiness of a value
Truthy(v) ==
    \/ v.ty \in {"true", "num", "obj"}
    \/ v.ty = "str" /\ (v.tag # "" \/ v.txt # <<>>)

Or(a, b) == IF Truthy(a) THEN a ELSE b

\* typeof v === "string" && v.trim().length > 0
isNonEmptyString(v) == v.ty = "str" /\ (v.tag # "" \/ Trim(v.txt) # <<>>)

\* res.status(s).json(body): inner is the object nested in the body
\* (data, or the object stringified into result_text).
JsonResp(status, body, inner) ==
    [status |-> status, json |-> TRUE, body |-> body, inner |-> inner]
\* res.status(s).end(): no body at all
EndResp(status) ==
    [status |-> status, json |-> FALSE, body |-> EmptyObj, inner |-> EmptyObj]

BaseReq ==
    [method |-> "POST", defect |-> "none", pkg |-> "message", inc |-> FALSE,
     rel |-> "personal", intent |-> "set_boundary", tone |-> "calm",
     fmt |-> "message", out |-> "", impact |-> "high", cont |-> "high",
     facts |-> 25, concerns |-> {"repeat"}]

PackageIds ==
    {"message", "email", "bundle", "total", "analysis_message", "analysis_email",
     "premium", " Email ", ""}

Vary(f, S) == {[BaseReq EXCEPT ![f] = v] : v \in S}

\* The base request with its package and add-on flag varied freely and every
\* other field varied one at a time.
Requests ==
    {[BaseReq EXCEPT !.pkg = p, !.inc = i] : p \in PackageIds, i \in BOOLEAN}
    \cup {[BaseReq EXCEPT !.pkg = p, !.fmt = f] : p \in {"message", "email"},
                                                   f \in {"", "email", "fax"}}
    \cup Vary("method", {"GET", "OPTIONS"})
    \cup Vary("defect", {"origin", "ctype", "too_large", "bad_body", "no_state",
                         "bad_state_json", "missing_keys", "bad_shape"})
    \cup Vary("rel", {"family", "boss", ""})
    \cup Vary("intent", {"official", "bogus", ""})
    \cup Vary("tone", {"angry", ""})
    \cup Vary("out", {"both"})
    \cup Vary("impact", {"low", ""})
    \cup Vary("cont", {"mid", "low", ""})
    \cup Vary("facts", {0, 10})
    \cup Vary("concerns", {{"document", "leverage"}})
    \cup {[BaseReq EXCEPT !.concerns = {"document"}, !.impact = "low", !.cont = "low"]}

\* The state object as a handler reads it: absent fields read as "".
StateOf(r) ==
    IF r.defect \in {"no_state", "bad_state_json", "bad_body", "too_large"}
    THEN [r EXCEPT !.pkg = "", !.inc = FALSE, !.rel = "", !.intent = "",
                   !.tone = "", !.fmt = "", !.out = "", !.impact = "",
                   !.cont = "", !.facts = 0, !.concerns = {}]
    ELSE r

\* Texts the model is taken to write into a deliverable field.
ShortLen == 1
MidLen == 400
LongLen == 10001
OneLine(n) == <<(<<"c", n>>)>>
GenTexts == {OneLine(ShortLen), OneLine(MidLen), OneLine(LongLen)}
RECURSIVE LinesOf(_, _)
LinesOf(k, n) == IF k = 0 THEN <<>> ELSE <<OneLine(n)>> \o LinesOf(k - 1, n)
AnalysisTexts ==
    {<<>>, OneLine(ShortLen), JoinLines(LinesOf(3, 120)), JoinLines(LinesOf(10, 20)),
     OneLine(600), JoinLines(LinesOf(3, 300))}
GarbageText == Sentence(<<5, 2, 3, 4>>)
NonJsonTexts == {<<>>, GarbageText}

-----------------------------------------------------------------------------
(* What one generator call can return *)

Throw == [kind |-> "throw", txt |-> <<>>, obj |-> EmptyObj]
NonJson(t) == [kind |-> "text", txt |-> t, obj |-> EmptyObj]
Json(o) == [kind |-> "json", txt |-> <<>>, obj |-> o]

Stamp(obj, src) == [k \in DOMAIN obj |-> [obj[k] EXCEPT !.src = src]]

Blank == <<(<<"s", 2>>)>>

\* Objects a generator may return when asked for the keys ks: the compliant
\* ones, and a compliant one with a single defect.
GenObjects(ks) ==
    LET base == [k \in ks |-> Str(OneLine(MidLen), 0)]
    IN {[k \in ks |-> Str(t, 0)] : t \in GenTexts}
       \cup {With(base, "extra", Str(OneLine(ShortLen), 0))}
       \cup {Without(base, {k}) : k \in ks}
       \cup {With(base, k, Num(0)) : k \in ks}
       \cup {With(base, k, Str(Blank, 0)) : k \in ks}

GenOutputs(ks) ==
    {Throw} \cup {NonJson(t) : t \in NonJsonTexts} \cup {Json(o) : o \in GenObjects(ks)}

AnalysisObjects ==
    {("analysis_text" :> Str(t, 0)) : t \in AnalysisTexts}
    \cup {EmptyObj, ("analysis_text" :> Num(0)),
          ("analysis_text" :> Str(JoinLines(LinesOf(3, 120)), 0))
              @@ ("extra" :> Str(OneLine(ShortLen), 0))}

AnalysisOutputs ==
    {Throw} \cup {NonJson(t) : t \in NonJsonTexts} \cup {Json(o) : o \in AnalysisObjects}

\* One step of a handler: every variable but the request is set.
Step(pc2, calls2, nextSrc2, failed2, stage2, resp2) ==
    /\ pc' = pc2
    /\ calls' = calls2
    /\ nextSrc' = nextSrc2
    /\ failed' = failed2
    /\ stage' = stage2
    /\ resp' = resp2
    /\ UNCHANGED <<handler, req, ein, eout, cvars>>

\* Respond that leaves the handler where it was
RespondAndGoOn(r) == Step(pc, calls, nextSrc, failed, stage, r)

\* the handler sends r and returns
Respond(r) == Step("done", calls, nextSrc, failed, stage, r)

-----------------------------------------------------------------------------
(* The two-call handler: optional analysis call, then a generation call,
   each validated, repaired once and replaced by a static fallback *)

ENUMS ==
    [relationship |-> {"intimate", "personal", "social", "peripheral"},
     intent |-> {"push_back", "set_boundary", "clarify_or_correct", "address_issue",
                 "reset_expectations", "make_it_official", "close_the_loop"},
     tone |-> {"calm", "neutral", "firm", "formal"},
     format |-> {"message", "email"},
     package |-> {"message", "email", "bundle"},
     impact |-> {"low", "high"},
     continuity |-> {"low", "mid", "high"}]

INTENT_ALIASES(v) == IF v = "official" THEN "make_it_official" ELSE v
REL_AXIS_ALIASES(v) == IF v = "family" THEN "intimate" ELSE v

\* String.prototype.trim on a token: " Email " is the one padded,
\* capitalised token among the requests.
TrimId(v) == IF v = " Email " THEN "Email" ELSE v

normalizePkg(pkgRaw) ==
    CASE TrimId(pkgRaw) = "total" -> "bundle"
      [] TrimId(pkgRaw) = "analysis_email" -> "email"
      [] TrimId(pkgRaw) = "analysis_message" -> "message"
      [] OTHER -> TrimId(pkgRaw)

deriveFormatFromPkgAndState(pkg, stateFormat, paywallOutput) ==
    IF stateFormat \in {"message", "email"} THEN stateFormat
    ELSE IF paywallOutput = "message" THEN "message"
    ELSE IF paywallOutput \in {"email", "both"} THEN "email"
    ELSE IF pkg = "message" THEN "message"
    ELSE "email"

normalizeIncomingState(state) ==
    LET pkg == normalizePkg(state.pkg)
    IN [relationship |-> REL_AXIS_ALIASES(state.rel),
        intent |-> INTENT_ALIASES(state.intent),
        tone |-> state.tone,
        format |-> deriveFormatFromPkgAndState(pkg, state.fmt, state.out),
        pkg |-> pkg,
        include_analysis |-> state.inc,
        risk_scan |-> [impact |-> state.impact, continuity |-> state.cont],
        rawContext |-> state.facts]

assertEnum(value, allowed) == value \in allowed

pkgSchemaFor(pkg, include_analysis) ==
    (CASE pkg = "message" -> {"message_text", "note_text"}
       [] pkg = "email" -> {"email_text", "note_text"}
       [] pkg = "bundle" -> {"message_text", "email_text", "note_text"}
       [] OTHER -> {})
    \cup (IF include_analysis THEN {"analysis_text"} ELSE {})

\* TRUE where the code's validateJsonResult returns, FALSE where it throws
validateJsonResult(obj, keys) ==
    /\ \A k \in DOMAIN obj :
          k \in keys /\ obj[k].ty = "str" /\ Trim(obj[k].txt) # <<>>
    /\ \A r \in keys : r \in DOMAIN obj

safeFallback(pkg, include_analysis) ==
    [k \in ((IF pkg \in {"message", "bundle"} THEN {"message_text"} ELSE {})
            \cup (IF pkg \in {"email", "bundle"} THEN {"email_text"} ELSE {})
            \cup {"note_text"}
            \cup (IF include_analysis THEN {"analysis_text"} ELSE {})) |->
        CASE k = "message_text" -> Str(FallbackMessageText, 0)
          [] k = "email_text" -> Str(FallbackEmailText, 0)
          [] k = "note_text" -> Str(FallbackNoteText, 0)
          [] OTHER -> Str(FallbackAnalysisText, 0)]

postprocessByPackage(pkg, include_analysis, obj) ==
    LET fit(k, maxChars, minChars, addon) ==
            Str(ensureMinChars(enforceMaxChars(Get(obj, k).txt, maxChars), minChars, addon),
                Get(obj, k).src)
        ks == ((DOMAIN obj \cup {"note_text"}
                  \cup (IF pkg \in {"message", "bundle"} THEN {"message_text"} ELSE {})
                  \cup (IF pkg \in {"email", "bundle"} THEN {"email_text"} ELSE {})
                  \cup (IF include_analysis THEN {"analysis_text"} ELSE {}))
               \ (IF include_analysis THEN {} ELSE {"analysis_text"}))
    IN [k \in ks |->
          CASE k = "message_text" /\ pkg \in {"message", "bundle"} ->
                 fit(k, MAX_MESSAGE_CHARS, MIN_MESSAGE_CHARS, MessageAddon)
            [] k = "email_text" /\ pkg \in {"email", "bundle"} ->
                 fit(k, MAX_EMAIL_CHARS, MIN_EMAIL_CHARS, EmailAddon)
            [] k = "note_text" -> fit(k, MAX_NOTE_CHARS, MIN_NOTE_CHARS, NoteAddon)
            [] k = "analysis_text" ->
                 Str(enforceAnalysis3LinesV2(Get(obj, k).txt), Get(obj, k).src)
            [] OTHER -> obj[k]]

\* The first check of the handler that throws, "" when none does
TCThrown(g, r) ==
    LET norm == normalizeIncomingState(StateOf(r))
    IN CASE g = "fail" -> "Failed to fetch GUIDELINE_MAP"
         [] r.defect = "bad_state_json" -> "Invalid state JSON"
         [] ~assertEnum(norm.relationship, ENUMS.relationship) -> "Invalid relationship"
         [] ~assertEnum(norm.intent, ENUMS.intent) -> "Invalid intent"
         [] ~assertEnum(norm.tone, ENUMS.tone) -> "Invalid tone"
         [] ~assertEnum(norm.format, ENUMS.format) -> "Invalid format"
         [] ~assertEnum(norm.pkg, ENUMS.package) -> "Invalid package"
         [] ~assertEnum(norm.risk_scan.impact, ENUMS.impact) -> "Invalid risk_scan.impact"
         [] ~assertEnum(norm.risk_scan.continuity, ENUMS.continuity) ->
                "Invalid risk_scan.continuity"
         [] norm.rawContext = 0 -> "Missing context.text"
         [] g = "no_guide" -> "Missing intent guide"
         [] OTHER -> ""

\* The call in flight: which stage prompt it carries, the model outputs (by
\* id) whose text is embedded in its system or user prompt, and whether the
\* provider answered it with an error.
Sent(role, embeds) == [role |-> role, embeds |-> embeds, threw |-> FALSE]

GenerationFailed(msg) ==
    JsonResp(500, ("ok" :> Bool(FALSE)) @@ ("error" :> Lit("GENERATION_FAILED"))
                  @@ ("message" :> Lit(msg)), EmptyObj)

TCStart ==
    /\ handler = "twoCall" /\ pc = "start"
    /\ \E g \in {"ok", "fail", "no_guide"} :
         LET norm == normalizeIncomingState(StateOf(req))
         IN IF req.method = "OPTIONS" THEN Respond(EndResp(204))
            ELSE IF req.method # "POST"
            THEN Respond(JsonResp(405, ("ok" :> Bool(FALSE))
                                       @@ ("error" :> Lit("METHOD_NOT_ALLOWED")), EmptyObj))
            ELSE IF TCThrown(g, req) # "" THEN Respond(GenerationFailed(TCThrown(g, req)))
            ELSE Step(IF norm.include_analysis THEN "tc_analysis" ELSE "tc_gen",
                      calls + 1, nextSrc, failed,
                      [pkg |-> norm.pkg, include_analysis |-> norm.include_analysis,
                       analysis_text |-> Null,
                       sent |-> Sent(IF norm.include_analysis THEN "analysis" ELSE "gen", {}),
                       accepted |-> <<>>],
                      resp)

\* typeof analysisObj?.analysis_text === "string"
\* What the analysis stage let through: the keys of the object and those of
\* them whose value is not a non-blank string.
Shape(obj) ==
    [keys |-> DOMAIN obj,
     bad |-> {k \in DOMAIN obj : obj[k].ty # "str" \/ Trim(obj[k].txt) = <<>>}]

AnalysisOk(out) ==
    out.kind = "json" /\ "analysis_text" \in DOMAIN out.obj
                      /\ out.obj["analysis_text"].ty = "str"

\* TCFinish that keeps an analysis_text the generation stage returned
TCFinishKeepGenerated(obj) ==
    LET attached == IF stage.include_analysis /\ "analysis_text" \notin DOMAIN obj
                    THEN With(obj, "analysis_text", stage.analysis_text)
                    ELSE obj
        final == postprocessByPackage(stage.pkg, stage.include_analysis, attached)
    IN JsonResp(200, Spread(("ok" :> Bool(TRUE)), final), EmptyObj)

\* attach analysis_text, postprocess, and answer 200 { ok: true, ...obj }
TCFinish(obj) ==
    LET attached == IF stage.include_analysis
                    THEN With(obj, "analysis_text", stage.analysis_text)
                    ELSE obj
        final == postprocessByPackage(stage.pkg, stage.include_analysis, attached)
    IN JsonResp(200, Spread(("ok" :> Bool(TRUE)), final), EmptyObj)

\* Thrown that answers with the static fallback instead of the failure
ThrownMasked ==
    Step("done", calls, nextSrc, failed, [stage EXCEPT !.sent.threw = TRUE],
         TCFinish(safeFallback(stage.pkg, stage.include_analysis)))

\* callLLM throws: the handler's catch answers 500 GENERATION_FAILED
Thrown ==
    Step("done", calls, nextSrc, failed, [stage EXCEPT !.sent.threw = TRUE],
         GenerationFailed("provider error"))

TCAnalysis ==
    /\ handler = "twoCall" /\ pc = "tc_analysis"
    /\ \E out \in AnalysisOutputs :
         IF out.kind = "throw" THEN Thrown
         ELSE IF AnalysisOk(out)
         THEN Step("tc_gen", calls + 1, nextSrc + 1, failed,
                   [stage EXCEPT !.analysis_text =
                       Str(enforceAnalysis3LinesV2(out.obj["analysis_text"].txt), nextSrc),
                                 !.sent = Sent("gen", {nextSrc}),
                                 !.accepted = Shape(out.obj)],
                   resp)
         ELSE Step("tc_analysis_repair", calls + 1, nextSrc + 1, failed \cup {nextSrc},
                   [stage EXCEPT !.sent = Sent("analysis_repair", {nextSrc})], resp)

TCAnalysisRepair ==
    /\ handler = "twoCall" /\ pc = "tc_analysis_repair"
    /\ \E out \in AnalysisOutputs :
         IF out.kind = "throw" THEN Thrown
         ELSE IF AnalysisOk(out)
         THEN Step("tc_gen", calls + 1, nextSrc + 1, failed,
                   [stage EXCEPT !.analysis_text =
                       Str(enforceAnalysis3LinesV2(out.obj["analysis_text"].txt), nextSrc),
                                 !.sent = Sent("gen", {nextSrc}),
                                 !.accepted = Shape(out.obj)],
                   resp)
         ELSE Step("tc_gen", calls + 1, nextSrc + 1, failed \cup {nextSrc},
                   [stage EXCEPT !.analysis_text =
                       Str(enforceAnalysis3LinesV2(
                               safeFallback(stage.pkg, TRUE)["analysis_text"].txt), 0),
                                 !.sent = Sent("gen", {})],
                   resp)

TCGen ==
    /\ handler = "twoCall" /\ pc = "tc_gen"
    /\ \E out \in GenOutputs(pkgSchemaFor(stage.pkg, stage.include_analysis)) :
         IF out.kind = "throw" THEN Thrown
         ELSE IF out.kind = "json"
                 /\ validateJsonResult(out.obj, pkgSchemaFor(stage.pkg, stage.include_analysis))
         THEN Step("done", calls, nextSrc + 1, failed, stage,
                   TCFinish(Stamp(out.obj, nextSrc)))
         ELSE Step("tc_gen_repair", calls + 1, nextSrc + 1, failed \cup {nextSrc},
                   [stage EXCEPT !.sent = Sent("gen_repair", {nextSrc})], resp)

\* TCGenRepair that answers a failed repair with another repair call
TCGenRepairAgain ==
    /\ handler = "twoCall" /\ pc = "tc_gen_repair" /\ calls < 6
    /\ \E out \in GenOutputs(pkgSchemaFor(stage.pkg, stage.include_analysis)) :
         IF out.kind = "throw" THEN Thrown
         ELSE IF out.kind = "json"
                 /\ validateJsonResult(out.obj, pkgSchemaFor(stage.pkg, stage.include_analysis))
         THEN Step("done", calls, nextSrc + 1, failed, stage,
                   TCFinish(Stamp(out.obj, nextSrc)))
         ELSE Step("tc_gen_repair", calls + 1, nextSrc + 1, failed \cup {nextSrc},
                   [stage EXCEPT !.sent = Sent("gen_repair", {nextSrc})], resp)

TCGenRepair ==
    /\ handler = "twoCall" /\ pc = "tc_gen_repair"
    /\ \E out \in GenOutputs(pkgSchemaFor(stage.pkg, stage.include_analysis)) :
         IF out.kind = "throw" THEN Thrown
         ELSE IF out.kind = "json"
                 /\ validateJsonResult(out.obj, pkgSchemaFor(stage.pkg, stage.include_analysis))
         THEN Step("done", calls, nextSrc + 1, failed, stage,
                   TCFinish(Stamp(out.obj, nextSrc)))
         ELSE Step("done", calls, nextSrc + 1, failed \cup {nextSrc}, stage,
                   TCFinish(safeFallback(stage.pkg, stage.include_analysis)))

-----------------------------------------------------------------------------
(* The 3-pass handler: Pass A (canonical), Pass B (layer1), Pass C (final
   deliverables), each one provider call with an optional single retry *)

jsonFail(status, stg, extra) ==
    JsonResp(status, Spread(("ok" :> Bool(FALSE)) @@ ("stage" :> Lit(stg)), extra), EmptyObj)

Attempts ==
    {[ok |-> TRUE, status |-> 200, thrown |-> FALSE],
     [ok |-> FALSE, status |-> 429, thrown |-> FALSE],
     [ok |-> FALSE, status |-> 400, thrown |-> FALSE],
     [ok |-> FALSE, status |-> 0, thrown |-> TRUE]}

\* the allow-list with a client error added
TransientStatusesWide == {400, 408, 429, 500, 502, 503, 504}

TransientStatuses == {408, 429, 500, 502, 503, 504}

\* r1 is the first attempt's outcome, r2 what a second attempt would give;
\* attempts counts the provider calls actually made.
callOpenAIWithOptionalRetry(r1, r2, retryOnce) ==
    IF r1.thrown \/ r1.ok THEN [res |-> r1, attempts |-> 1]
    ELSE IF retryOnce /\ r1.status \in TransientStatuses
    THEN [res |-> r2, attempts |-> 2]
    ELSE [res |-> r1, attempts |-> 1]

\* String(v || "").trim().toLowerCase()
asLowerId(v) == IF v = " Email " THEN "email" ELSE v

normalizePackageId(pkg) ==
    IF asLowerId(pkg) \in {"message", "email", "analysis_message", "analysis_email", "total"}
    THEN asLowerId(pkg) ELSE ""

requestedOutputsForPackage(pkg) ==
    [wantMessage |-> pkg \in {"message", "analysis_message", "total"},
     wantEmail |-> pkg \in {"email", "analysis_email", "total"},
     wantAnalysis |-> pkg \in {"analysis_message", "analysis_email", "total"}]

pickPackageFromFrontState(state) ==
    IF normalizePackageId(state.pkg) # "" THEN normalizePackageId(state.pkg) ELSE "message"

WantedKeys(need) ==
    (IF need.wantMessage THEN {"message_text"} ELSE {})
    \cup (IF need.wantEmail THEN {"email_text"} ELSE {})
    \cup (IF need.wantAnalysis THEN {"analysis_report"} ELSE {})

\* Returns the verdict together with finalObj as the code has mutated it.
enforceFinalSchemaByPackage(finalObj, pkg) ==
    LET p == normalizePackageId(pkg)
        need == requestedOutputsForPackage(p)
        keep == {"package", "message_text", "email_text", "analysis_report", "notes",
                 "safety_disclaimer"}
        kept == [k \in DOMAIN finalObj \cap keep |-> finalObj[k]]
        forced == With(kept, "package", Lit(p))
        stripped == Without(forced,
                        {"message_text", "email_text", "analysis_report"} \ WantedKeys(need))
        verdict ==
            CASE ~isNonEmptyString(Get(stripped, "safety_disclaimer")) ->
                    "missing_safety_disclaimer"
              [] need.wantMessage /\ ~isNonEmptyString(Get(stripped, "message_text")) ->
                    "missing_message_text"
              [] need.wantEmail /\ ~isNonEmptyString(Get(stripped, "email_text")) ->
                    "missing_email_text"
              [] need.wantAnalysis /\ ~isNonEmptyString(Get(stripped, "analysis_report")) ->
                    "missing_analysis_report"
              [] OTHER -> ""
    IN IF p = "" THEN [ok |-> FALSE, error |-> "invalid_package", obj |-> finalObj]
       ELSE [ok |-> verdict = "", error |-> verdict, obj |-> stripped]

resolveIntentPath(intentId) ==
    IF intentId \in {"address_issue", "clarify_correct", "close_loop", "official",
                     "push_back", "reset_expectations", "set_boundary"}
    THEN "prompts/intent" ELSE ""

\* The first validation of the 3-pass handler that fails, "" when none does
TPInvalid(r) ==
    CASE r.defect \in {"no_state", "bad_state_json", "bad_body", "too_large"} -> "validate_body"
      [] r.defect = "missing_keys" -> "validate_state_keys"
      [] r.defect = "bad_shape" \/ r.rel = "" \/ r.intent = "" \/ r.tone = ""
           \/ r.fmt = "" \/ r.facts = 0 -> "validate_state_shape"
      [] OTHER -> ""

TPStart ==
    /\ handler = "threePass" /\ pc = "start"
    /\ \E env \in {"ok", "no_key", "no_repo"}, retryOnce \in BOOLEAN, fetched \in BOOLEAN :
         IF req.method = "OPTIONS" THEN Respond(EndResp(204))
         ELSE IF req.method # "POST"
         THEN Respond(jsonFail(405, "method", ("error" :> Lit("Method not allowed"))))
         ELSE IF TPInvalid(req) # ""
         THEN Respond(jsonFail(400, TPInvalid(req), ("error" :> Lit("invalid state"))))
         ELSE IF env # "ok"
         THEN Respond(jsonFail(500, "env", ("error" :> Lit(env))))
         ELSE IF ~fetched
         THEN Respond(jsonFail(502, "prompt_fetch", ("error" :> Lit("PROMPT_FETCH_FAIL"))))
         ELSE Step("tp_passA", calls + 1, nextSrc, failed,
                   [pkg |-> pickPackageFromFrontState(req), retryOnce |-> retryOnce,
                    canonical |-> Null, layer1 |-> Null],
                   resp)

ServerError ==
    JsonResp(500, ("ok" :> Bool(FALSE)) @@ ("stage" :> Lit("server_error"))
                  @@ ("error" :> Lit("Server error")) @@ ("details" :> Lit("exception")),
             EmptyObj)

OpenAIFailed(stg, r) ==
    jsonFail(502, stg, ("error" :> Lit("OpenAI failed")) @@ ("http_status" :> Num(0))
                       @@ ("details" :> Nested("provider error body", 0)))

\* What Pass A or Pass B may return under the key it is asked for
PassOutputs(key, tags) ==
    {NonJson(t) : t \in NonJsonTexts}
    \cup {Json(EmptyObj), Json(key :> Null)}
    \cup {Json(key :> Nested(t, 0)) : t \in tags}

MissingKey(stg, out, src) ==
    jsonFail(502, stg,
             ("error" :> Lit("missing object"))
             @@ ("details.snippet" :> Str(Slice(out.txt, 400), src))
             @@ ("details.keys" :> Nested("keys", 0)))

TPPassA ==
    /\ handler = "threePass" /\ pc = "tp_passA"
    /\ \E r1 \in Attempts, r2 \in Attempts,
          out \in PassOutputs("canonical", {req.intent, "set_boundary"}) :
         LET c == callOpenAIWithOptionalRetry(r1, r2, stage.retryOnce)
             made == calls + (c.attempts - 1)
         IN IF c.res.thrown THEN Step("done", made, nextSrc, failed, stage, ServerError)
            ELSE IF ~c.res.ok
            THEN Step("done", made, nextSrc, failed, stage, OpenAIFailed("passA_openai", c.res))
            ELSE IF out.kind # "json" \/ "canonical" \notin DOMAIN out.obj
            THEN Step("done", made, nextSrc + 1, failed \cup {nextSrc}, stage,
                      MissingKey("passA_missing_canonical", out, nextSrc))
            ELSE IF out.obj["canonical"].ty # "obj"
            THEN Step("done", made, nextSrc + 1, failed \cup {nextSrc}, stage,
                      jsonFail(502, "passA_bad_canonical",
                               ("error" :> Lit("Invalid canonical payload"))))
            ELSE Step("tp_passB", made + 1, nextSrc + 1, failed,
                      [stage EXCEPT !.canonical = [out.obj["canonical"] EXCEPT !.src = nextSrc]],
                      resp)

TPPassB ==
    /\ handler = "threePass" /\ pc = "tp_passB"
    /\ \E r1 \in Attempts, r2 \in Attempts, out \in PassOutputs("layer1", {"layer1"}),
          fetched \in BOOLEAN :
         LET c == callOpenAIWithOptionalRetry(r1, r2, stage.retryOnce)
             made == calls + (c.attempts - 1)
             intentId == asLowerId(stage.canonical.tag)
         IN IF c.res.thrown THEN Step("done", made, nextSrc, failed, stage, ServerError)
            ELSE IF ~c.res.ok
            THEN Step("done", made, nextSrc, failed, stage, OpenAIFailed("passB_openai", c.res))
            ELSE IF out.kind # "json" \/ "layer1" \notin DOMAIN out.obj
            THEN Step("done", made, nextSrc + 1, failed \cup {nextSrc}, stage,
                      MissingKey("passB_missing_layer1", out, nextSrc))
            ELSE IF out.obj["layer1"].ty # "obj"
            THEN Step("done", made, nextSrc + 1, failed \cup {nextSrc}, stage,
                      jsonFail(502, "passB_bad_layer1",
                               ("error" :> Lit("Invalid layer1 payload"))))
            ELSE IF resolveIntentPath(intentId) = ""
            THEN Step("done", made, nextSrc + 1, failed, stage,
                      jsonFail(400, "validate_ids",
                               ("error" :> Lit("Invalid intent value (canonical.intent)"))
                               @@ ("details.intentId" :> Lit(intentId))))
            ELSE IF ~fetched
            THEN Step("done", made, nextSrc + 1, failed, stage,
                      jsonFail(502, "prompt_fetch_intent",
                               ("error" :> Lit("PROMPT_FETCH_FAIL"))))
            ELSE Step("tp_passC", made + 1, nextSrc + 1, failed,
                      [stage EXCEPT !.layer1 = [out.obj["layer1"] EXCEPT !.src = nextSrc]],
                      resp)

\* Objects Pass C may return for a package: compliant ones, one carrying
\* every deliverable and an extra key, and compliant ones with one defect.
PassCObjects(pkg) ==
    LET W == WantedKeys(requestedOutputsForPackage(pkg))
        comp(t) == [k \in {"package", "safety_disclaimer", "notes"} \cup W |->
                       IF k = "package" THEN Str(OneLine(7), 0) ELSE Str(t, 0)]
        base == comp(OneLine(MidLen))
        all == [k \in {"package", "safety_disclaimer", "notes", "message_text",
                       "email_text", "analysis_report", "extra"} |-> Str(OneLine(MidLen), 0)]
    IN {comp(t) : t \in GenTexts} \cup {all, Without(base, {"notes"})}
       \cup {Without(base, {k}) : k \in {"package", "safety_disclaimer"} \cup W}
       \cup {With(base, k, Str(Blank, 0)) : k \in {"safety_disclaimer"} \cup W}
       \cup {With(base, k, Num(0)) : k \in W}

PassCOutputs(pkg) ==
    {NonJson(t) : t \in NonJsonTexts} \cup {Json(o) : o \in PassCObjects(pkg)}

TPPassC ==
    /\ handler = "threePass" /\ pc = "tp_passC"
    /\ \E r1 \in Attempts, r2 \in Attempts, out \in PassCOutputs(stage.pkg) :
         LET c == callOpenAIWithOptionalRetry(r1, r2, stage.retryOnce)
             made == calls + (c.attempts - 1)
             enforced == enforceFinalSchemaByPackage(Stamp(out.obj, nextSrc), stage.pkg)
         IN IF c.res.thrown THEN Step("done", made, nextSrc, failed, stage, ServerError)
            ELSE IF ~c.res.ok
            THEN Step("done", made, nextSrc, failed, stage, OpenAIFailed("passC_openai", c.res))
            ELSE IF out.kind = "text" /\ out.txt = <<>>
            THEN Step("done", made, nextSrc + 1, failed \cup {nextSrc}, stage,
                      jsonFail(502, "passC_empty_output",
                               ("error" :> Lit("Empty result (Pass C)"))))
            ELSE IF out.kind = "text"
            THEN Step("done", made, nextSrc + 1, failed \cup {nextSrc}, stage,
                      jsonFail(502, "passC_non_json",
                               ("error" :> Lit("Final output is not valid JSON"))
                               @@ ("details.snippet" :> Str(Slice(out.txt, 600), nextSrc))))
            ELSE IF "package" \notin DOMAIN out.obj \/ "safety_disclaimer" \notin DOMAIN out.obj
            THEN Step("done", made, nextSrc + 1, failed \cup {nextSrc}, stage,
                      jsonFail(502, "passC_bad_schema",
                               ("error" :> Lit("Final JSON missing required fields"))
                               @@ ("details.keys" :> Nested("keys", 0))))
            ELSE IF ~enforced.ok
            THEN Step("done", made, nextSrc + 1, failed \cup {nextSrc}, stage,
                      jsonFail(502, "passC_package_contract_failed",
                               ("error" :> Lit("Final JSON violates package output contract"))
                               @@ ("details.reason" :> Lit(enforced.error))
                               @@ ("details.keys" :> Nested("keys", 0))))
            ELSE Step("done", made, nextSrc + 1, failed, stage,
                      JsonResp(200, ("ok" :> Bool(TRUE))
                                    @@ ("result_text" :> Nested("JSON.stringify(finalObj)", nextSrc))
                                    @@ ("meta" :> Nested("meta", 0)),
                               enforced.obj))

-----------------------------------------------------------------------------
(* The insight handler: gates, engine, one main generation call, and an
   optional insight call *)

json(status, body) == JsonResp(status, body, EmptyObj)

Err(code) == ("ok" :> Bool(FALSE)) @@ ("error" :> Lit(code))

\* buildPayload that leaves main_concerns out of the engine input
buildPayloadWithoutConcerns(state) ==
    [package |-> state.pkg,
     include_analysis |-> state.inc,
     key_facts |-> state.facts,
     engine_input |->
        [impact |-> state.impact, cont |-> state.cont, sit |-> "",
         concerns |-> {}, continuity |-> "", happened_before |-> "null",
         exposure |-> {}, leverage_flag |-> "null"]]

buildPayload(state) ==
    [package |-> state.pkg,
     include_analysis |-> state.inc,
     key_facts |-> state.facts,
     engine_input |->
        [impact |-> state.impact, cont |-> state.cont, sit |-> "",
         concerns |-> state.concerns, continuity |-> "", happened_before |-> "null",
         exposure |-> {}, leverage_flag |-> "null"]]

FACTS_MIN == 20

\* The state the insight handler reads: body.state || body
INState(r) ==
    IF r.defect = "bad_state_json"
    THEN [r EXCEPT !.pkg = "", !.inc = FALSE, !.facts = 0, !.impact = "", !.cont = "",
                   !.concerns = {}]
    ELSE r

\* INGate without the facts minimum
INGateWithoutFacts(r) ==
    LET payload == buildPayload(INState(r))
    IN CASE r.defect = "origin" -> "ORIGIN_NOT_ALLOWED"
         [] r.method = "OPTIONS" -> "OPTIONS"
         [] r.method # "POST" -> "METHOD_NOT_ALLOWED"
         [] r.defect = "ctype" -> "UNSUPPORTED_MEDIA_TYPE"
         [] r.defect = "too_large" -> "BODY_TOO_LARGE"
         [] r.defect = "bad_body" -> "BAD_REQUEST"
         [] payload.package = "" -> "MISSING_PACKAGE"
         [] payload.package \notin {"message", "email", "bundle"} -> "UNKNOWN_PACKAGE"
         [] OTHER -> ""

\* The gate that answers the request before any generation, "" when none does
INGate(r) ==
    LET payload == buildPayload(INState(r))
    IN CASE r.defect = "origin" -> "ORIGIN_NOT_ALLOWED"
         [] r.method = "OPTIONS" -> "OPTIONS"
         [] r.method # "POST" -> "METHOD_NOT_ALLOWED"
         [] r.defect = "ctype" -> "UNSUPPORTED_MEDIA_TYPE"
         [] r.defect = "too_large" -> "BODY_TOO_LARGE"
         [] r.defect = "bad_body" -> "BAD_REQUEST"
         [] payload.package = "" -> "MISSING_PACKAGE"
         [] payload.key_facts < FACTS_MIN -> "MISSING_FACTS"
         [] payload.package \notin {"message", "email", "bundle"} -> "UNKNOWN_PACKAGE"
         [] OTHER -> ""

GateStatus(g) ==
    CASE g = "ORIGIN_NOT_ALLOWED" -> 403
      [] g = "METHOD_NOT_ALLOWED" -> 405
      [] g = "UNSUPPORTED_MEDIA_TYPE" -> 415
      [] g = "BODY_TOO_LARGE" -> 413
      [] OTHER -> 400

pickModelInsight(engine, include_analysis) ==
    IF include_analysis THEN "MODEL_ANALYSIS"
    ELSE IF engine.risk_level = "high" THEN "MODEL_HIGH_RISK"
    ELSE "MODEL_DEFAULT"

INStart ==
    /\ handler = "insight" /\ pc = "start"
    /\ \E loaded \in BOOLEAN :
         LET payload == buildPayload(INState(req))
             engine == computeEngineDecisions("compute", payload.engine_input)
         IN IF INGate(req) = "OPTIONS" THEN Respond(EndResp(204))
            ELSE IF INGate(req) # "" THEN Respond(json(GateStatus(INGate(req)), Err(INGate(req))))
            ELSE IF ~loaded
            THEN Respond(json(500, Err("PROMPT_LOAD_FAILED") @@ ("message" :> Lit("load error"))))
            ELSE Step("in_main", calls + 1, nextSrc, failed,
                      [pkg |-> payload.package, include_analysis |-> payload.include_analysis,
                       engine |-> engine,
                       model |-> pickModelInsight(engine, payload.include_analysis),
                       mainObj |-> EmptyObj, out |-> EmptyObj],
                      resp)

\* openaiChat either throws (provider failure, abort on timeout, empty
\* content) or returns a non-empty text.
ChatThrows == {"OPENAI_FAILED", "aborted", "OPENAI_EMPTY"}

MainObjects ==
    {[k \in ks |-> Str(t, 0)] :
        ks \in {{}, {"message_text"}, {"email_text"}, {"message_text", "email_text"},
                {"bundle_message_text", "email_text"}},
        t \in {OneLine(ShortLen), OneLine(LongLen)}}
    \cup {("message_text" :> Num(0))}

MainOutputs == {NonJson(GarbageText)} \cup {Json(o) : o \in MainObjects}

\* res 200 { ok: true, data: out } with the engine attached when configured
INFinish(out, mainObj, pkg, engine, returnEngine) ==
    LET bundled == IF pkg = "bundle"
                   THEN [out EXCEPT
                           !["message_text"] = Or(Get(mainObj, "bundle_message_text"),
                                                  Or(out["message_text"], Null)),
                           !["email_text"] = Or(Get(mainObj, "email_text"),
                                                Or(out["email_text"], Null))]
                   ELSE out
        body == ("ok" :> Bool(TRUE)) @@ ("data" :> Nested("out", 0))
    IN JsonResp(200, IF returnEngine THEN With(body, "engine", Nested("engine", 0)) ELSE body,
                bundled)

INMain ==
    /\ handler = "insight" /\ pc = "in_main"
    /\ \E thrown \in ChatThrows \cup {""}, o \in MainOutputs, loaded \in BOOLEAN,
          returnEngine \in BOOLEAN :
         LET mainObj == Stamp(o.obj, nextSrc)
             out == ("message_text" :> Or(Get(mainObj, "message_text"),
                                          Or(Get(mainObj, "bundle_message_text"), Null)))
                    @@ ("email_text" :> Or(Get(mainObj, "email_text"), Null))
                    @@ ("insight" :> Null) @@ ("analysis_text" :> Null)
         IN IF thrown # ""
            THEN Respond(json(502, Err(IF thrown = "aborted" THEN "GENERATION_TIMEOUT"
                                       ELSE "GENERATION_FAILED")
                                   @@ ("message" :> Lit(thrown))))
            ELSE IF o.kind # "json"
            THEN Step("done", calls, nextSrc + 1, failed \cup {nextSrc}, stage,
                      json(502, Err("MODEL_RETURNED_NON_JSON")
                                @@ ("message" :> Lit("Model output was not valid JSON"))
                                @@ ("raw" :> Str(Slice(o.txt, 1200), nextSrc))))
            ELSE IF ~stage.include_analysis
            THEN Step("done", calls, nextSrc + 1, failed, stage,
                      INFinish(out, mainObj, stage.pkg, stage.engine, returnEngine))
            ELSE IF ~loaded
            THEN Step("done", calls, nextSrc + 1, failed, stage,
                      json(500, Err("INSIGHT_PROMPT_LOAD_FAILED")
                                @@ ("message" :> Lit("load error"))))
            ELSE Step("in_insight", calls + 1, nextSrc + 1, failed,
                      [stage EXCEPT !.mainObj = mainObj, !.out = out], resp)

InsightOutputs == {NonJson(GarbageText), Json(("insight_title" :> Str(OneLine(MidLen), 0)))}

INInsight ==
    /\ handler = "insight" /\ pc = "in_insight"
    /\ \E thrown \in ChatThrows \cup {""}, o \in InsightOutputs, returnEngine \in BOOLEAN :
         LET out == IF o.kind = "json"
                    THEN [stage.out EXCEPT
                            !["insight"] = Nested("insightObj", nextSrc),
                            !["analysis_text"] = Str(OneLine(MidLen), nextSrc)]
                    ELSE [stage.out EXCEPT
                            !["insight"] = Nested("disclaimer_line: insightText", nextSrc),
                            !["analysis_text"] = Str(o.txt, nextSrc)]
         IN IF thrown # ""
            THEN Respond(json(502, Err(IF thrown = "aborted" THEN "INSIGHT_TIMEOUT"
                                       ELSE "INSIGHT_FAILED")
                                   @@ ("message" :> Lit(thrown))))
            ELSE Step("done", calls, nextSrc + 1,
                      IF o.kind = "json" THEN failed ELSE failed \cup {nextSrc}, stage,
                      INFinish(out, stage.mainObj, stage.pkg, stage.engine, returnEngine))

-----------------------------------------------------------------------------
(* The legacy handler: one provider call, the model's text returned as is *)

PGStart ==
    /\ handler = "pages" /\ pc = "start"
    /\ \E env \in {"ok", "no_key", "no_repo"}, fetched \in BOOLEAN :
         IF req.method = "OPTIONS" THEN Respond(EndResp(204))
         ELSE IF req.method # "POST"
         THEN Respond(json(405, ("error" :> Lit("Method not allowed"))))
         ELSE IF req.defect \in {"no_state", "bad_state_json", "bad_body", "too_large"}
         THEN Respond(json(400, ("error" :> Lit("Missing or invalid state object"))))
         ELSE IF req.defect = "missing_keys"
         THEN Respond(json(400, ("error" :> Lit("Missing fields"))))
         ELSE IF env # "ok"
         THEN Respond(json(500, ("error" :> Lit("Server misconfig"))))
         ELSE IF ~fetched
         THEN Respond(json(500, ("error" :> Lit("Server error"))
                                @@ ("details" :> Lit("Prompt fetch failed"))))
         ELSE Step("pg_call", calls + 1, nextSrc, failed, [pkg |-> ""], resp)

PGCall ==
    /\ handler = "pages" /\ pc = "pg_call"
    /\ \E outcome \in {"not_ok", "bad_json", "text"}, t \in NonJsonTexts \cup {Blank} :
         IF outcome = "not_ok"
         THEN Respond(json(500, ("error" :> Lit("OpenAI request failed"))
                                @@ ("details" :> Lit("provider error body"))))
         ELSE IF outcome = "bad_json"
         THEN Respond(json(500, ("error" :> Lit("Server error"))
                                @@ ("details" :> Lit("exception"))))
         ELSE IF Trim(t) = <<>>
         THEN Step("done", calls, nextSrc + 1, failed, stage,
                   json(500, ("error" :> Lit("Empty result from model"))))
         ELSE Step("done", calls, nextSrc + 1, failed, stage,
                   json(200, ("result_text" :> Str(Trim(t), nextSrc))))

-----------------------------------------------------------------------------
(* The vNext handler: engine decisions, three template fetches, one call *)

expectedKeysForPackage(pkg) ==
    CASE pkg = "message" -> {"message_text", "note_text"}
      [] pkg = "email" -> {"email_text", "note_text"}
      [] pkg = "bundle" -> {"message_text", "email_text", "note_text"}
      [] OTHER -> {"message_text", "note_text"}

\* The templates whose text the request's promptText is made of
NeededPrompts(pkg, includeAnalysis) ==
    (CASE pkg = "message" -> {"message"}
       [] pkg = "email" -> {"email"}
       [] pkg = "bundle" -> {"message", "email"}
       [] OTHER -> {})
    \cup (IF includeAnalysis THEN {"insight"} ELSE {})

\* fetchPromptText returns null for a fetch that failed (no repository
\* configured, or a response that is not ok) and rejects when the fetch
\* itself does; got is the set of templates that came back as text.
\* the model by the name of the setting it is read from
pickModel(decisions, wantAnalysis) ==
    IF wantAnalysis THEN "CB_MODEL_ANALYSIS"
    ELSE IF decisions.risk_level = "high" THEN "CB_MODEL_HIGH_RISK"
    ELSE "CB_MODEL_DEFAULT"

VNStart ==
    /\ handler = "vnext" /\ pc = "start"
    /\ \E got \in SUBSET {"message", "email", "insight"}, rejected \in BOOLEAN :
         LET state == StateOf(req)
             needed == NeededPrompts(state.pkg, state.inc)
             decisions ==
                computeEngineDecisionsPages(
                    [cont |-> state.cont, concerns |-> state.concerns,
                     direction_unsure |-> FALSE])
         IN IF req.method = "OPTIONS" THEN Respond(EndResp(204))
            ELSE IF req.method # "POST" THEN Respond(json(405, Err("METHOD_NOT_ALLOWED")))
            ELSE IF req.defect = "origin" THEN Respond(json(403, Err("ORIGIN_NOT_ALLOWED")))
            ELSE IF req.defect = "too_large"
            THEN Respond(json(500, Err("GENERATION_FAILED")
                                   @@ ("message" :> Lit("Payload too large"))))
            ELSE IF req.defect \in {"no_state", "bad_state_json", "bad_body"}
            THEN Respond(json(400, Err("BAD_REQUEST")
                                   @@ ("message" :> Lit("Missing state object"))))
            ELSE IF state.facts = 0
            THEN Respond(json(400, Err("MISSING_CONTEXT")
                                   @@ ("message" :> Lit("context.text is required"))))
            ELSE IF state.pkg = ""
            THEN Respond(json(400, Err("MISSING_PACKAGE")
                                   @@ ("message" :> Lit("context.paywall.package is required"))))
            ELSE IF rejected
            THEN Step("done", calls, nextSrc, failed,
                      [pkg |-> state.pkg, include_analysis |-> state.inc,
                       engine |-> decisions, needed |-> needed, used |-> {}],
                      json(500, Err("GENERATION_FAILED") @@ ("message" :> Lit("fetch failed"))))
            ELSE Step("vn_call", calls + 1, nextSrc, failed,
                      [pkg |-> state.pkg, include_analysis |-> state.inc,
                       engine |-> decisions, needed |-> needed,
                       used |-> needed \cap got,
                       model |-> pickModel(decisions, state.inc)],
                      resp)

\* callOpenAI throws (no key, provider error, output that is not JSON) or
\* returns the parsed object; the shape guard keeps the allowed keys whose
\* value is a non-blank string, trimmed, and note_text is defaulted.
VNCall ==
    /\ handler = "vnext" /\ pc = "vn_call"
    /\ LET keys == expectedKeysForPackage(stage.pkg)
           allowed == keys \cup (IF stage.include_analysis THEN {"analysis_text"} ELSE {})
       IN \E o \in {Throw} \cup {Json(x) : x \in GenObjects(allowed)} :
            LET out == Stamp(o.obj, nextSrc)
                kept == {k \in allowed : k \in DOMAIN out /\ isNonEmptyString(out[k])}
                cleaned == [k \in kept \cup {"note_text"} |->
                              IF k \in kept THEN [out[k] EXCEPT !.txt = Trim(out[k].txt)]
                              ELSE Lit("dash")]
            IN IF o.kind = "throw"
               THEN Respond(json(500, Err("GENERATION_FAILED")
                                      @@ ("message" :> Lit("provider error"))))
               ELSE Step("done", calls, nextSrc + 1, failed, stage,
                         JsonResp(200, ("ok" :> Bool(TRUE)) @@ ("data" :> Nested("cleaned", 0))
                                           @@ ("engine" :> Nested("engine", 0)),
                                  cleaned))

-----------------------------------------------------------------------------
(* All handlers on every bounded request *)

Handlers == {"twoCall", "threePass", "insight", "pages", "vnext"}

Init ==
    /\ handler \in Handlers
    /\ req \in Requests
    /\ pc = "start"
    /\ calls = 0
    /\ nextSrc = 1
    /\ failed = {}
    /\ stage = <<>>
    /\ resp = <<>>
    /\ ein = <<>>
    /\ eout = <<>>
    /\ now = 0 /\ cache = <<>> /\ remote = "v1" /\ loads = <<>>

Next ==
    \/ TCStart \/ TCAnalysis \/ TCAnalysisRepair \/ TCGen \/ TCGenRepair
    \/ TPStart \/ TPPassA \/ TPPassB \/ TPPassC
    \/ INStart \/ INMain \/ INInsight
    \/ PGStart \/ PGCall
    \/ VNStart \/ VNCall

Spec == Init /\ [][Next]_vars

-----------------------------------------------------------------------------
(* Properties of the handlers *)

Done == pc = "done"
Success == pc = "done" /\ resp.status = 200

\* The object that carries the deliverable fields of a response
Deliverables == IF handler \in {"threePass", "insight", "vnext"} THEN resp.inner ELSE resp.body

FieldKey(f) ==
    CASE f = "message" -> "message_text"
      [] f = "email" -> "email_text"
      [] OTHER -> IF handler = "threePass" THEN "analysis_report" ELSE "analysis_text"

HasValue(obj, k) == k \in DOMAIN obj /\ obj[k].ty # "null"

\* The package table
Licensed(pkg) ==
    CASE pkg = "message" -> {"message"}
      [] pkg = "email" -> {"email"}
      [] pkg = "analysis_message" -> {"message", "analysis"}
      [] pkg = "analysis_email" -> {"email", "analysis"}
      [] pkg \in {"total", "bundle"} -> {"message", "email", "analysis"}
      [] OTHER -> {}

TablePackages ==
    {"message", "email", "analysis_message", "analysis_email", "total", "bundle"}

\* C1: a successful response to a request for one of the table's packages
\* carries a non-null value for exactly the fields the table licenses for
\* that package (message_text / email_text / analysis field) and for no other.
LicensedFieldsExact ==
    (Success /\ handler # "pages" /\ req.pkg \in TablePackages) =>
        \A f \in {"message", "email", "analysis"} :
            HasValue(Deliverables, FieldKey(f)) <=> f \in Licensed(req.pkg)

\* The fields a handler must deliver for the package it resolved
RequiredFields ==
    CASE handler = "twoCall" -> pkgSchemaFor(stage.pkg, stage.include_analysis)
      [] handler = "threePass" ->
            WantedKeys(requestedOutputsForPackage(stage.pkg)) \cup {"safety_disclaimer"}
      [] handler = "insight" ->
            (IF stage.pkg \in {"message", "bundle"} THEN {"message_text"} ELSE {})
            \cup (IF stage.pkg \in {"email", "bundle"} THEN {"email_text"} ELSE {})
            \cup (IF stage.include_analysis THEN {"analysis_text"} ELSE {})
      [] OTHER -> {"result_text"}

\* C2: a step that finds a model output invalid and answers the request
\* (no further repair is left) answers 200 with every required field a
\* non-empty string: the schema violation is not surfaced as an error.
SchemaViolationRecovered ==
    [][(failed' # failed /\ pc' = "done") =>
          /\ resp'.status = 200
          /\ \A k \in RequiredFields :
                isNonEmptyString(Get(IF handler \in {"threePass", "insight"}
                                     THEN resp'.inner ELSE resp'.body, k))]_vars

\* C3: no value of a response (body or nested object) comes from a model
\* output that failed validation.
FailedTextNeverReturned ==
    Done => /\ \A k \in DOMAIN resp.body : resp.body[k].src \notin failed
            /\ \A k \in DOMAIN resp.inner : resp.inner[k].src \notin failed

Budget ==
    [message_text |-> [min |-> MIN_MESSAGE_CHARS, max |-> MAX_MESSAGE_CHARS],
     email_text |-> [min |-> MIN_EMAIL_CHARS, max |-> MAX_EMAIL_CHARS],
     note_text |-> [min |-> MIN_NOTE_CHARS, max |-> MAX_NOTE_CHARS],
     analysis_text |-> [min |-> ANALYSIS_TOTAL_MIN_CHARS, max |-> MAX_ANALYSIS_CHARS]]

\* C4: in a successful response of the postprocessing handler every
\* delivered text field has a length within [min, max] of its budget.
DeliveredWithinBudget ==
    (Success /\ handler = "twoCall") =>
        \A k \in DOMAIN resp.body \cap DOMAIN Budget :
            /\ TLen(resp.body[k].txt) >= Budget[k].min
            /\ TLen(resp.body[k].txt) <= Budget[k].max

\* C5: the analysis text of a successful response of the postprocessing
\* handler consists of exactly 3 lines, none of them empty.
AnalysisExactlyThreeLines ==
    (Success /\ handler = "twoCall" /\ "analysis_text" \in DOMAIN resp.body) =>
        LET ls == SplitLines(resp.body["analysis_text"].txt)
        IN Len(ls) = ANALYSIS_LINES /\ \A i \in 1..Len(ls) : Trim(ls[i]) # <<>>

\* C6: in a successful response every one of the three deliverable fields is
\* present, and a field the package does not license is present as null.
UnlicensedPresentAsNull ==
    (Success /\ handler # "pages" /\ req.pkg \in TablePackages) =>
        \A f \in {"message", "email", "analysis"} :
            /\ FieldKey(f) \in DOMAIN Deliverables
            /\ f \notin Licensed(req.pkg) => Deliverables[FieldKey(f)].ty = "null"

\* C7: every answered request has a JSON object body with an ok flag.
EveryResponseHasOkFlag ==
    Done => resp.json /\ "ok" \in DOMAIN resp.body

EnumFields == {"rel", "intent", "tone", "fmt", "pkg", "impact", "cont"}

\* The tokens some version of the service recognises for each enum field
Recognised ==
    [rel |-> ENUMS.relationship \cup {"family"},
     intent |-> ENUMS.intent \cup {"official"},
     tone |-> ENUMS.tone,
     fmt |-> ENUMS.format,
     pkg |-> TablePackages \cup {" Email "},
     impact |-> ENUMS.impact,
     cont |-> ENUMS.continuity]

WellTransported(r) == r.method = "POST" /\ r.defect = "none"

HasUnknownEnum(r) == \E f \in EnumFields : r[f] # "" /\ r[f] \notin Recognised[f]

HasMissingField(r) ==
    \/ \E f \in EnumFields \ {"fmt"} : r[f] = ""
    \/ r.facts = 0

\* The response reports a failure of the environment (configuration, prompt
\* or guideline fetch), not a verdict on the request.
InfraFailure ==
    \E k \in DOMAIN resp.body :
        resp.body[k].tag \in {"Failed to fetch GUIDELINE_MAP", "env", "prompt_fetch",
                              "PROMPT_LOAD_FAILED", "Server misconfig",
                              "Prompt fetch failed"}

\* C8: a well-transported request with a missing field or an unknown
\* package/enum value is answered 4xx and no generator call was made for it
\* (unless the environment failed first).
BadRequestRejectedBeforeGeneration ==
    (Done /\ WellTransported(req) /\ (HasUnknownEnum(req) \/ HasMissingField(req))
          /\ ~InfraFailure) =>
        (resp.status >= 400 /\ resp.status < 500 /\ calls = 0)

\* C9: a request with an enum value outside its allow-list never reaches
\* generation and never succeeds: no value is substituted for it.
UnknownEnumNeverDefaulted ==
    (WellTransported(req) /\ HasUnknownEnum(req)) =>
        (calls = 0 /\ (Done => resp.status # 200))

\* the shortest facts text a handler lets through: the insight handler wants
\* FACTS_MIN characters, the others a text that is not empty
MinFacts(h) == IF h = "insight" THEN FACTS_MIN ELSE 1

EngineInvoked == stage # <<>> /\ "engine" \in DOMAIN stage

MissingTemplateNeverGenerated ==
    (handler = "vnext" /\ stage # <<>> /\ stage.used # stage.needed) =>
        (calls = 0 /\ (Done => resp.status >= 500))

\* The explicit deadline, in milliseconds, of the generator call in flight
\* at a handler position; 0 where the call is made without one.  Only
\* openaiChat of the insight handler aborts its fetch after timeoutMs.
Deadline(h, p) ==
    IF h = "insight" /\ p = "in_main" THEN 22000
    ELSE IF h = "insight" /\ p = "in_insight" THEN 16000
    ELSE 0

TimeoutKinds == {"GENERATION_TIMEOUT", "INSIGHT_TIMEOUT"}

\* C19: every generator call in flight runs under an explicit deadline, and
\* an aborted (timed-out) call is answered with a timeout kind of its own.
OutboundCallsHaveDeadline ==
    /\ pc \notin {"start", "done"} => Deadline(handler, pc) > 0
    /\ (Done /\ "message" \in DOMAIN resp.body /\ resp.body["message"].tag = "aborted")
            => resp.body["error"].tag \in TimeoutKinds

\* C20: every successful response carries safety_disclaimer, a string the
\* server wrote itself, the same for every request.
DisclaimerPresentAndConstant ==
    Success =>
        \E obj \in {resp.body, resp.inner} :
            /\ "safety_disclaimer" \in DOMAIN obj
            /\ obj["safety_disclaimer"].ty = "str"
            /\ obj["safety_disclaimer"].src = 0
            /\ obj["safety_disclaimer"].tag = "safety_disclaimer"

\* C21: in the two-call handler a stage output that fails validation is
\* followed by one repair call whose prompt carries that failed text; a
\* repair output that fails too is replaced by the static fallback.  No
\* stage makes more than two calls (four with the analysis stage).
OneRepairThenFallback ==
    (handler = "twoCall" /\ stage # <<>>) =>
        /\ calls <= (IF stage.include_analysis THEN 4 ELSE 2)
        /\ pc \in {"tc_analysis_repair", "tc_gen_repair"} =>
                /\ stage.sent.role = (IF pc = "tc_gen_repair" THEN "gen_repair"
                                      ELSE "analysis_repair")
                /\ stage.sent.embeds = {nextSrc - 1}
                /\ nextSrc - 1 \in failed
        /\ (Success /\ nextSrc - 1 \in failed) =>
                \A k \in DOMAIN resp.body \ {"analysis_text"} : resp.body[k].src = 0
        /\ (Success /\ stage.include_analysis /\ {1, 2} \subseteq failed) =>
                resp.body["analysis_text"].src = 0

\* C21 witness: both stages were repaired once, both repairs failed, and the
\* answer is the static fallback after four calls.
BothStagesFellBack ==
    /\ handler = "twoCall" /\ Success
    /\ calls = 4 /\ failed = {1, 2, 3, 4}
    /\ \A k \in DOMAIN resp.body : resp.body[k].src = 0

ProviderErrorFailsRequest ==
    (handler = "twoCall" /\ stage # <<>>) =>
        /\ stage.sent.threw =>
              /\ pc = "done"
              /\ resp = GenerationFailed("provider error")
        /\ (Success /\ \E k \in DOMAIN resp.body \ {"ok"} : resp.body[k].src = 0) =>
              /\ ~stage.sent.threw
              /\ failed # {}

\* C24 witness: the repair call of the generation stage met a provider error
\* and the request failed.
RepairCallThrewAndFailed ==
    /\ handler = "twoCall" /\ stage # <<>>
    /\ stage.sent.role = "gen_repair" /\ stage.sent.threw
    /\ resp.status = 500

\* C25: an output the analysis stage accepts has exactly the key
\* analysis_text, and its value is a non-empty string.
AcceptedAnalysisMatchesSchema ==
    (handler = "twoCall" /\ stage # <<>> /\ stage.accepted # <<>>) =>
        /\ stage.accepted.keys = {"analysis_text"}
        /\ stage.accepted.bad = {}

\* C28: a response is in hand exactly when the handler has returned, no step
\* follows it (one response per request), and in the two-call handler every
\* call that was issued has by then been answered or has failed hard.
NoMidPipelineCancellation ==
    /\ [](resp # <<>> <=> pc = "done")
    /\ []((handler = "twoCall" /\ pc = "done" /\ stage # <<>>) =>
             calls = (nextSrc - 1) + (IF stage.sent.threw THEN 1 ELSE 0))
    /\ [][resp = <<>>]_vars

\* C28 witness: both stages of a two-call request ran to their end and the
\* one response was then sent.
BothStagesDoneThenResponse ==
    /\ handler = "twoCall" /\ Success
    /\ stage.include_analysis /\ calls = 2 /\ nextSrc = 3 /\ failed = {}

\* C29: the call in flight goes to a model other than the default one
\* exactly when the request asks for analysis, or record_safe_level is 2, or
\* risk_level is high.
RouterFollowsRule ==
    (handler \in {"insight", "vnext"} /\ pc \in {"in_main", "vn_call"}) =>
        (stage.model \notin {"MODEL_DEFAULT", "CB_MODEL_DEFAULT"}
            <=> \/ stage.include_analysis
                \/ stage.engine.record_safe_level = 2
                \/ stage.engine.risk_level = "high")

\* C32: Pass B is in flight only with a canonical object in hand and Pass C
\* only with a layer1 object as well, and a request that ends in failure
\* after Pass A was called carries the stage label of the pass it failed in
\* (or of the check between Pass B and Pass C).
PassesInOrderWithOwnLabel ==
    (handler = "threePass" /\ stage # <<>>) =>
        /\ pc = "tp_passB" => stage.canonical.ty = "obj"
        /\ pc = "tp_passC" => (stage.canonical.ty = "obj" /\ stage.layer1.ty = "obj")
        /\ (pc = "done" /\ resp.status # 200) =>
              resp.body["stage"].tag \in
                 (IF stage.canonical.ty # "obj"
                  THEN {"passA_openai", "passA_missing_canonical", "passA_bad_canonical"}
                  ELSE IF stage.layer1.ty # "obj"
                  THEN {"passB_openai", "passB_missing_layer1", "passB_bad_layer1",
                        "validate_ids", "prompt_fetch_intent"}
                  ELSE {"passC_openai", "passC_empty_output", "passC_non_json",
                        "passC_bad_schema", "passC_package_contract_failed"})

\* C35: with include_analysis the analysis_text answered by the two-call
\* handler is the text the analysis stage ended with (its output, its
\* repaired output or its fallback), whatever the generation stage returned
\* under that key.
AnalysisTextFromAnalysisStage ==
    (handler = "twoCall" /\ Success /\ stage.include_analysis) =>
        /\ "analysis_text" \in DOMAIN resp.body
        /\ resp.body["analysis_text"].src = stage.analysis_text.src
        /\ resp.body["analysis_text"].txt = enforceAnalysis3LinesV2(stage.analysis_text.txt)
        /\ stage.analysis_text.src \in {0, 1, 2}
        /\ stage.analysis_text.src = 0 => {1, 2} \subseteq failed

\* C35 witness: the generation stage returned an analysis_text of its own
\* and the response carries the analysis stage's.
GeneratedAnalysisOverwritten ==
    /\ handler = "twoCall" /\ Success /\ stage.include_analysis
    /\ failed = {} /\ nextSrc = 3
    /\ resp.body["analysis_text"].src = 1
    /\ resp.body["message_text"].src = 2

\* C36: in the two-call flow the second application of
\* enforceAnalysis3LinesV2 (inside postprocessByPackage) leaves the text the
\* first application produced unchanged: the analysis_text answered is the
\* text the analysis stage ended with.
SecondEnforceChangesNothing ==
    (handler = "twoCall" /\ Success /\ stage.include_analysis) =>
        resp.body["analysis_text"].txt = stage.analysis_text.txt

\* the decisions for the fields of the request alone
EngineOfRequest(r) ==
    LET st == INState(r)
    IN computeEngineDecisions("compute",
            [impact |-> st.impact, cont |-> st.cont, sit |-> "",
             concerns |-> st.concerns, continuity |-> "", happened_before |-> "null",
             exposure |-> {}, leverage_flag |-> "null"])

-----------------------------------------------------------------------------
(* The decision engine applied to every bounded input *)

MaxConcerns == 2      \* main_concerns holds at most this many tokens
MaxExposure == 1      \* exposure[] holds at most this many keys

ConcernTokens == {"repeat", "document", "impact_work", "leverage"}
\* main_concerns as sent: recognised tokens, or one the engine does not know
ConcernSets == {c \in SUBSET ConcernTokens : Cardinality(c) <= MaxConcerns} \cup {{"roles"}}
ExposureKeys ==
    {"emotional_fallout", "reputation_impact", "documentation_sensitivity",
     "they_have_leverage"}

FrontInputs ==
    [impact : {"high", "low", " High ", ""},
     cont : {"high", "mid", "low", "sometimes", ""},
     sit : {"set_boundary", "official_documented"},
     concerns : ConcernSets,
     continuity : {""},
     happened_before : {"null"},
     exposure : {{}},
     leverage_flag : {"null"}]

NativeInputs ==
    [impact : {"high", "low", " High ", ""},
     cont : {"high", "mid", "low", ""},
     sit : {"set_boundary", "official_documented"},
     concerns : ConcernSets,
     continuity : {"", "one_time", "short_term", "ongoing", "sometimes"},
     happened_before : {"null", "true", "false"},
     exposure : {e \in SUBSET ExposureKeys : Cardinality(e) <= MaxExposure},
     leverage_flag : {"null", "true", "false"}]

\* the vNext backend state: relationship.value, context.risk_scan,
\* context.main_concerns and context.direction_unsure
VNextInputs ==
    [impact : {"high", "low", ""},
     cont : {"high", "mid", "low", "ongoing", ""},
     concerns : {c \in SUBSET ConcernTokens : Cardinality(c) <= MaxConcerns},
     relationship : {"personal", "social", ""},
     direction_unsure : BOOLEAN]

EngineInputs ==
    {[ver |-> "index", input |-> i] : i \in FrontInputs}
        \cup {[ver |-> "compute", input |-> i] : i \in NativeInputs}
        \cup {[ver |-> "state", input |-> i] : i \in FrontInputs}
        \cup {[ver |-> v, input |-> i] : v \in {"decision", "pages"}, i \in VNextInputs}

Idle ==
    /\ handler = "none"
    /\ req = <<>>
    /\ calls = 0
    /\ nextSrc = 1
    /\ failed = {}
    /\ stage = <<>>
    /\ resp = <<>>
    /\ now = 0 /\ cache = <<>> /\ remote = "v1" /\ loads = <<>>

\* the engine copy named by ver, applied to its input
Decide(ver, input) ==
    CASE ver = "state" -> compute(input)
      [] ver = "decision" -> computeEngineDecision(input)
      [] ver = "pages" -> computeEngineDecisionsPages(input)
      [] OTHER -> computeEngineDecisions(ver, input)

EngineInit ==
    /\ Idle
    /\ pc = "engine_ready"
    /\ ein \in EngineInputs
    /\ eout = <<>>

EngineCompute ==
    /\ pc = "engine_ready"
    /\ eout' = Decide(ein.ver, ein.input)
    /\ pc' = "engine_done"
    /\ UNCHANGED <<handler, req, calls, nextSrc, failed, stage, resp, ein, cvars>>

EngineNext == EngineCompute

SpecEngine == EngineInit /\ [][EngineNext]_vars

\* C10: whenever the engine has decided, record_safe_level = 2 implies that
\* the recommended tone is "formal".
RecordSafeImpliesFormal ==
    pc = "engine_done" =>
        (eout.record_safe_level = 2 => eout.tone_recommendation = "formal")

\* C10 witness: a decided input with record_safe_level 2 whose risk level is
\* high, the case in which the tone would otherwise be "neutral".
RecordSafeHighRiskDecided ==
    /\ pc = "engine_done"
    /\ eout.record_safe_level = 2
    /\ eout.risk_level = "high"
    /\ eout.tone_recommendation = "formal"

ExposureWeight == [emotional_fallout |-> 1, reputation_impact |-> 2,
                   documentation_sensitivity |-> 2, they_have_leverage |-> 3]

RECURSIVE SumWeights(_)
SumWeights(ks) ==
    IF ks = {} THEN 0
    ELSE LET k == CHOOSE x \in ks : TRUE IN ExposureWeight[k] + SumWeights(ks \ {k})

TrueExposure(flags) == {k \in DOMAIN ExposureWeight : flags[k]}

ContinuityWeight(bucket) ==
    IF bucket = "ongoing" THEN 2 ELSE IF bucket = "short_term" THEN 1 ELSE 0

\* C12: the decided risk_score is the continuity weight (0/1/2) plus 1 for a
\* repeat signal plus the weights 1/2/2/3 of the exposure flags that are
\* true, each counted once.
RiskScoreIsWeightSum ==
    pc = "engine_done" =>
        eout.risk_score = ContinuityWeight(eout.flags.continuity_bucket)
                            + (IF eout.flags.repeat_flag THEN 1 ELSE 0)
                            + SumWeights(TrueExposure(eout.flags))

\* C12 witness: an ongoing, repeated situation with all four exposure flags
\* true has been scored 11.
AllFlagsScored ==
    /\ pc = "engine_done"
    /\ eout.flags.continuity_bucket = "ongoing"
    /\ eout.flags.repeat_flag
    /\ TrueExposure(eout.flags) = DOMAIN ExposureWeight
    /\ eout.risk_score = 11

\* relationship personal, intent set_boundary, risk_scan {impact high,
\* continuity high}, main_concerns [repeat], nothing else supplied
IsBoundaryExample(i) ==
    /\ i.impact = "high"
    /\ i.cont = "high"
    /\ i.concerns = {"repeat"}
    /\ "sit" \in DOMAIN i => i.sit = "set_boundary"
    /\ "relationship" \in DOMAIN i => i.relationship = "personal"
    /\ "direction_unsure" \in DOMAIN i => ~i.direction_unsure
    /\ "continuity" \in DOMAIN i =>
            /\ i.continuity = ""
            /\ i.happened_before = "null"
            /\ i.exposure = {}
            /\ i.leverage_flag = "null"

\* C13: for relationship personal, intent set_boundary, impact high,
\* continuity high and main_concerns [repeat] the engine yields
\* risk_score >= 6 and risk_level high.
BoundaryExampleIsHighRisk ==
    (pc = "engine_done" /\ IsBoundaryExample(ein.input)) =>
        (eout.risk_score >= 6 /\ eout.risk_level = "high")

DirectionRule(e) ==
    IF /\ e.risk_level = "low"
       /\ e.flags.continuity_bucket = "one_time"
       /\ ~e.flags.repeat_flag
    THEN "maintain"
    ELSE IF /\ e.record_safe_level = 2
            /\ e.flags.leverage_flag
            /\ e.flags.ongoing_flag
            /\ e.flags.repeat_flag
    THEN "disengage"
    ELSE "reset"

\* C14: for every input the engine returns a direction_suggestion, never
\* null: maintain when the risk is low, the bucket one_time and there is no
\* repeat flag; otherwise disengage when record_safe_level is 2 and the
\* leverage, ongoing and repeat flags are all true; otherwise reset.
DirectionAlwaysComputed ==
    pc = "engine_done" => eout.direction_suggestion = DirectionRule(eout)

\* position of a continuity value in one_time < short_term < ongoing (the
\* front writes low < mid < high); 0 for a missing value
Rank(v) ==
    IF v \in {"ongoing", "high"} THEN 3
    ELSE IF v \in {"short_term", "mid"} THEN 2
    ELSE IF v \in {"one_time", "low"} THEN 1 ELSE 0

\* the inputs that differ from i only by a higher continuity
Raised(i) ==
    {[i EXCEPT !.cont = v] : v \in {w \in {"low", "mid", "high"} :
                                        Rank(i.cont) >= 1 /\ Rank(w) > Rank(i.cont)}}
    \cup (IF "continuity" \in DOMAIN i
          THEN {[i EXCEPT !.continuity = v] :
                    v \in {w \in {"one_time", "short_term", "ongoing"} :
                              Rank(i.continuity) >= 1 /\ Rank(w) > Rank(i.continuity)}}
          ELSE {})

\* C15: with every other field fixed, a higher continuity never gives a
\* lower risk_score.
ContinuityNeverLowersScore ==
    pc = "engine_done" =>
        \A j \in Raised(ein.input) : Decide(ein.ver, j).risk_score >= eout.risk_score

\* C15 witness: a decided one-time input whose score is 2 higher once the
\* continuity is ongoing.
ContinuityRaisedScore ==
    /\ pc = "engine_done"
    /\ eout.flags.continuity_bucket = "one_time"
    /\ \E j \in Raised(ein.input) :
            /\ Decide(ein.ver, j).flags.continuity_bucket = "ongoing"
            /\ Decide(ein.ver, j).risk_score = eout.risk_score + 2

\* the request says nothing the engine recognises
NothingRecognised ==
    /\ ein.input.impact = "" /\ ein.input.cont \in {"", "sometimes"}
    /\ ein.input.sit = "set_boundary" /\ ein.input.concerns \subseteq {"roles"}
    /\ ein.input.continuity \in {"", "sometimes"} /\ ein.input.happened_before = "null"
    /\ ein.input.exposure = {} /\ ein.input.leverage_flag = "null"

\* C31: whatever the input, the decision of api/engine/index.js and of
\* part_008 has every field in its enumerated range, and an input with
\* nothing recognised gets low risk with reset, concise and calm.
EngineTotal ==
    (pc = "engine_done" /\ ein.ver \in {"index", "compute"}) =>
        /\ eout.risk_level \in {"low", "moderate", "high"}
        /\ eout.record_safe_level \in {0, 1, 2}
        /\ eout.direction_suggestion \in {"maintain", "reset", "disengage"}
        /\ eout.tone_recommendation \in {"calm", "neutral", "formal"}
        /\ eout.detail_recommendation \in {"concise", "standard", "detailed"}
        /\ eout.insight_candor_level \in {"low", "moderate", "high"}
        /\ eout.constraints.tone_soften_if_high_risk \in BOOLEAN
        /\ eout.constraints.record_safe_mode \in BOOLEAN
        /\ NothingRecognised =>
              /\ eout.risk_level = "low" /\ eout.record_safe_level = 0
              /\ eout.direction_suggestion = "reset"
              /\ eout.detail_recommendation = "concise"
              /\ eout.tone_recommendation = "calm"

\* C31 witness: an unrecognised continuity and an unrecognised concern were
\* decided by the default branches.
UnrecognisedInputDecided ==
    /\ pc = "engine_done" /\ ein.ver = "index"
    /\ ein.input.cont = "sometimes" /\ ein.input.concerns = {"roles"}
    /\ NothingRecognised
    /\ eout.direction_suggestion = "reset"

\* C37: in every decision, a direction suggestion of disengage comes with
\* high risk and a direction suggestion of maintain comes with low risk.
DirectionFollowsRisk ==
    pc = "engine_done" =>
        /\ eout.direction_suggestion = "disengage" => eout.risk_level = "high"
        /\ eout.direction_suggestion = "maintain" => eout.risk_level = "low"

\* C37 witness: part_008 suggested disengage for an ongoing, repeated,
\* documented situation in which the other side has leverage.
DisengageDecided ==
    /\ pc = "engine_done" /\ ein.ver = "compute"
    /\ eout.direction_suggestion = "disengage"
    /\ eout.record_safe_level = 2
    /\ eout.risk_score >= 8

\* C38: in every decision, record_safe_level 2, the formal tone, the
\* detailed level and constraints.record_safe_mode come together or not at
\* all, and constraints.tone_soften_if_high_risk is set exactly at high risk.
RecordSafeFieldsAgree ==
    pc = "engine_done" =>
        /\ (eout.tone_recommendation = "formal") = (eout.record_safe_level = 2)
        /\ (eout.detail_recommendation = "detailed") = (eout.record_safe_level = 2)
        /\ eout.constraints.record_safe_mode = (eout.record_safe_level = 2)
        /\ eout.constraints.tone_soften_if_high_risk = (eout.risk_level = "high")

\* C38 witness: a decision at record-safe level 1 and high risk, where the
\* four record-safe fields are all off and the softening constraint is on.
HighRiskBelowRecordSafe ==
    /\ pc = "engine_done" /\ ein.ver = "compute"
    /\ eout.record_safe_level = 1 /\ eout.risk_level = "high"
    /\ eout.tone_recommendation = "neutral"
    /\ eout.detail_recommendation = "standard"
    /\ ~eout.constraints.record_safe_mode
    /\ eout.constraints.tone_soften_if_high_risk

-----------------------------------------------------------------------------
(* mapRiskLevel applied to every score up to MaxScore *)

MaxScore == 1001      \* scores 0..MaxScore, past the clamp at 999

RiskInit ==
    /\ Idle
    /\ pc = "risk_ready"
    /\ ein \in {[score |-> n] : n \in 0..MaxScore}
    /\ eout = <<>>

RiskMap ==
    /\ pc = "risk_ready"
    /\ eout' = [index |-> mapRiskLevel(ein.score), pages |-> mapRiskLevelPages(ein.score)]
    /\ pc' = "risk_done"
    /\ UNCHANGED <<handler, req, calls, nextSrc, failed, stage, resp, ein, cvars>>

RiskNext == RiskMap

SpecRisk == RiskInit /\ [][RiskNext]_vars

Band(score) == IF score <= 2 THEN "low" ELSE IF score <= 5 THEN "moderate" ELSE "high"

\* C11: for every non-negative score both mapRiskLevel versions return low
\* for score <= 2, moderate for 3..5 and high for score >= 6.
RiskLevelBands ==
    pc = "risk_done" => (eout.index = Band(ein.score) /\ eout.pages = Band(ein.score))

\* C11 witness: the boundary score 6 has been mapped, to high by both versions.
RiskLevelBoundarySix ==
    pc = "risk_done" /\ ein.score = 6 /\ eout.index = "high" /\ eout.pages = "high"

-----------------------------------------------------------------------------
(* callOpenAIWithOptionalRetry applied to every pair of attempt outcomes *)

AttemptPool ==
    {[ok |-> TRUE, status |-> 200, thrown |-> FALSE],
     [ok |-> FALSE, status |-> 0, thrown |-> TRUE]}
    \cup {[ok |-> FALSE, status |-> st, thrown |-> FALSE] :
            st \in {400, 401, 404, 408, 429, 500, 502, 503, 504}}

RetryInit ==
    /\ Idle
    /\ pc = "retry_ready"
    /\ ein \in [r1 : AttemptPool, r2 : AttemptPool, retryOnce : BOOLEAN]
    /\ eout = <<>>

RetryCall ==
    /\ pc = "retry_ready"
    /\ eout' = callOpenAIWithOptionalRetry(ein.r1, ein.r2, ein.retryOnce)
    /\ pc' = "retry_done"
    /\ UNCHANGED <<handler, req, calls, nextSrc, failed, stage, resp, ein, cvars>>

RetryNext == RetryCall

SpecRetry == RetryInit /\ [][RetryNext]_vars

\* C22: a provider call makes a second attempt only after a first attempt
\* that failed with status 408, 429, 500, 502, 503 or 504 (and, retry being
\* enabled, always then); it never makes a third, and what the last attempt
\* gave is returned as it is.
RetryOnceOnTransient ==
    pc = "retry_done" =>
        /\ eout.attempts \in {1, 2}
        /\ eout.attempts = 2 <=>
              /\ ein.retryOnce
              /\ ~ein.r1.thrown /\ ~ein.r1.ok
              /\ ein.r1.status \in {408, 429, 500, 502, 503, 504}
        /\ eout.res = (IF eout.attempts = 2 THEN ein.r2 ELSE ein.r1)

\* C22 witness: a 503 was retried, the retry failed with 429 and that
\* failure was returned after two attempts.
FailedRetryReturned ==
    /\ pc = "retry_done"
    /\ ein.r1.status = 503 /\ ein.r2.status = 429
    /\ eout.attempts = 2 /\ eout.res = ein.r2

-----------------------------------------------------------------------------
(* The template caches: getCached / setCached / fetchTextWithCache of the
   3-pass handler, cacheGet / cacheSet / fetchPromptText of the vNext handler
   and loadPrompt of the insight handler, each serving two loads of one key.
   A load runs to its fetch without interruption, is suspended on the fetch,
   and finishes in one step when the fetch settles. *)

MaxNow == 4
TtlMs == 2
Loads == {1, 2}
CacheUsers == {"threePass", "vnext", "insight"}
StoreTexts == {"v1", "v2"}

\* is entry e still served at time t
Fresh(e, t) ==
    CASE handler = "threePass" -> ~(e.expiresAt <= t)
      [] handler = "vnext" -> ~(e.exp < t)
      [] OTHER -> (t - e.at) < TtlMs

NewLoad == [pc |-> "idle", cached |-> <<>>, at |-> 0, sawExpired |-> FALSE, raced |-> FALSE, result |-> "", from |-> "", wrote |-> <<>>]

CacheInit ==
    /\ handler \in CacheUsers
    /\ req = <<>> /\ pc = "cache"
    /\ calls = 0 /\ nextSrc = 1 /\ failed = {} /\ stage = <<>> /\ resp = <<>>
    /\ ein = <<>> /\ eout = <<>>
    /\ now = 0 /\ cache = <<>> /\ remote = "v1"
    /\ loads = [p \in Loads |-> NewLoad]

Returned(l, text, from) == [l EXCEPT !.pc = "returned", !.result = text, !.from = from]

\* the load up to its await of fetch: the cache lookup
CacheLookup(p) ==
    LET hit == cache # <<>> /\ Fresh(cache, now)
        served == hit /\ (handler = "vnext" => cache.text # "")
        text == IF handler = "threePass" THEN cache.value ELSE cache.text
        q == CHOOSE o \in Loads : o # p
        racing == loads[q].pc = "fetching"
    IN /\ loads[p].pc = "idle"
       /\ IF served
          THEN /\ loads' = [loads EXCEPT ![p] = Returned(@, text, "cache")]
               /\ cache' = cache
          ELSE /\ loads' = [loads EXCEPT
                     ![p] = [@ EXCEPT !.pc = "fetching", !.at = now,
                                      !.cached = IF handler = "insight" THEN cache ELSE <<>>,
                                      !.sawExpired = (cache # <<>> /\ ~hit),
                                      !.raced = racing],
                     ![q] = [@ EXCEPT !.raced = @ \/ racing]]
               \* getCached and cacheGet delete the entry they find expired
               /\ cache' = IF handler \in {"threePass", "vnext"} /\ cache # <<>> /\ ~hit
                           THEN <<>> ELSE cache
       /\ UNCHANGED <<now, remote, hvars>>

\* what the fetch settles with: the store's text, an empty body, or a failure
FetchOutcomes == {"ok", "empty", "error"}

\* the load from the settled fetch to its return or throw
CacheFetchDone(p) ==
    /\ loads[p].pc = "fetching"
    /\ \E o \in FetchOutcomes :
         LET l == loads[p]
             body == IF o = "ok" THEN remote ELSE ""
             kept == IF l.cached # <<>> THEN l.cached.text ELSE ""
         IN CASE handler = "threePass" ->
                   IF o = "error"
                   THEN /\ loads' = [loads EXCEPT ![p] = [@ EXCEPT !.pc = "threw"]]
                        /\ cache' = cache
                   ELSE /\ cache' = [value |-> body, expiresAt |-> now + TtlMs]
                        /\ loads' = [loads EXCEPT ![p] = [Returned(@, body, "fetch") EXCEPT !.wrote = <<body>>]]
              [] handler = "vnext" ->
                   IF o = "error"
                   THEN /\ loads' = [loads EXCEPT ![p] = Returned(@, "null", "none")]
                        /\ cache' = cache
                   ELSE /\ cache' = [text |-> body, exp |-> now + TtlMs]
                        /\ loads' = [loads EXCEPT ![p] = [Returned(@, body, "fetch") EXCEPT !.wrote = <<body>>]]
              [] OTHER ->
                   IF o = "error"
                   THEN /\ loads' = [loads EXCEPT ![p] =
                               IF kept # "" THEN Returned(@, kept, "cache")
                               ELSE [@ EXCEPT !.pc = "threw"]]
                        /\ cache' = cache
                   ELSE LET text == IF body # "" THEN body ELSE kept
                        IN IF text = ""
                           THEN /\ loads' = [loads EXCEPT ![p] = [@ EXCEPT !.pc = "threw"]]
                                /\ cache' = cache
                           ELSE /\ cache' = [at |-> l.at, text |-> text]
                                /\ loads' = [loads EXCEPT ![p] =
                                       [Returned(@, text, IF body # "" THEN "fetch" ELSE "cache")
                                           EXCEPT !.wrote = <<text>>]]
    /\ UNCHANGED <<now, remote, hvars>>

\* the next request for the key
CacheAgain(p) ==
    /\ loads[p].pc \in {"returned", "threw"}
    /\ loads' = [loads EXCEPT ![p] = NewLoad]
    /\ UNCHANGED <<now, cache, remote, hvars>>

Tick ==
    /\ now < MaxNow
    /\ now' = now + 1
    /\ UNCHANGED <<cache, remote, loads, hvars>>

\* the template at the configured ref is replaced in the store
Publish ==
    /\ \E t \in StoreTexts \ {remote} : remote' = t
    /\ UNCHANGED <<now, cache, loads, hvars>>

CacheNext ==
    \/ \E p \in Loads : CacheLookup(p)
    \/ \E p \in Loads : CacheFetchDone(p)
    \/ \E p \in Loads : CacheAgain(p)
    \/ Tick
    \/ Publish

SpecCache == CacheInit /\ [][CacheNext]_vars

\* C26: a load that found the key's entry expired never returns text taken
\* from the cache, whatever its refetch gave.
ExpiredEntryNeverServed ==
    \A p \in Loads :
        (loads[p].pc = "returned" /\ loads[p].sawExpired) => loads[p].from # "cache"

\* C27: two loads that missed the cache for the key while both were in
\* flight store the same text, and the entry left holds that text.
RacingWritersAgree ==
    (\A p \in Loads : loads[p].pc = "returned" /\ loads[p].raced /\ loads[p].wrote # <<>>) =>
        /\ loads[1].wrote = loads[2].wrote
        /\ \A p \in Loads : loads[p].result = loads[1].wrote[1]

-----------------------------------------------------------------------------
(* The package id as the normalizers resolve it from the paths of the state
   object it may be written at *)

\* a path that does not exist reads as undefined
Undef == [ty |-> "undef", txt |-> <<>>, src |-> 0, tag |-> ""]

\* a ?? b
Coalesce(a, b) == IF a.ty \in {"undef", "null"} THEN b ELSE a

\* state?.context?.paywall?.package ?? state?.paywall?.package ??
\* state?.context?.package ?? state?.package
pkgRaw(cpp, pp, cp, p) == Coalesce(cpp, Coalesce(pp, Coalesce(cp, p)))

\* (s?.context?.paywall || s?.paywall || {}).package || null
paywallPackage(hasCtxPaywall, cpp, pp) == Or(IF hasCtxPaywall THEN cpp ELSE pp, Null)

PathValues == {Undef, Null, Str(<<>>, 0), Lit("message"), Lit("email")}

ResolveInit ==
    /\ Idle
    /\ pc = "resolve_ready"
    /\ ein \in {i \in [ver : {"twoCall", "insight"}, hasCtxPaywall : BOOLEAN,
                       cpp : PathValues, pp : PathValues, cp : PathValues, p : PathValues] :
                  /\ i.cpp # Undef => i.hasCtxPaywall
                  /\ i.ver = "insight" => (i.cp = Undef /\ i.p = Undef)}
    /\ eout = <<>>

Resolve ==
    /\ pc = "resolve_ready"
    /\ eout' = IF ein.ver = "twoCall"
               THEN pkgRaw(ein.cpp, ein.pp, ein.cp, ein.p)
               ELSE paywallPackage(ein.hasCtxPaywall, ein.cpp, ein.pp)
    /\ pc' = "resolve_done"
    /\ UNCHANGED <<handler, req, calls, nextSrc, failed, stage, resp, ein, cvars>>

ResolveNext == Resolve

SpecResolve == ResolveInit /\ [][ResolveNext]_vars

IsEmptyValue(v) == v.ty \in {"undef", "null"} \/ (v.ty = "str" /\ v.tag = "" /\ v.txt = <<>>)

\* C30: the package resolved is the first non-empty value along context.
\* paywall.package, paywall.package, context.package, package, and is empty
\* only when all of them are.
FirstNonEmptyWins ==
    pc = "resolve_done" =>
        LET paths == <<ein.cpp, ein.pp, ein.cp, ein.p>>
            filled == {k \in 1..4 : ~IsEmptyValue(paths[k])}
        IN IF filled = {} THEN IsEmptyValue(eout)
           ELSE eout = paths[CHOOSE k \in filled : \A j \in filled : k <= j]

-----------------------------------------------------------------------------
(* resolveFinalControls applied to every combination of user selections and
   engine recommendations *)

\* resolveFinalControls with the engine's recommendation taken first
resolveFinalControlsEngineFirst(inp, engine) ==
    [tone |-> Or(engine.tone_recommendation, inp.tone),
     detail |-> Or(engine.detail_recommendation, inp.detail),
     direction |-> Or(engine.direction_suggestion, Or(inp.direction, Lit("reset")))]

resolveFinalControls(inp, engine) ==
    [tone |-> Or(inp.tone, engine.tone_recommendation),
     detail |-> Or(inp.detail, engine.detail_recommendation),
     direction |-> Or(inp.direction, Or(engine.direction_suggestion, Lit("reset")))]

\* what a control of the request may hold: nothing, an empty string, a choice
UserChoices(vals) == {Null, Str(<<>>, 0)} \cup {Lit(v) : v \in vals}

ControlInputs ==
    [inp : [tone : UserChoices({"warm", "firm"}),
            detail : UserChoices({"brief"}),
            direction : UserChoices({"maintain", "disengage"})],
     engine : [tone_recommendation : {Lit("calm"), Lit("formal")},
               detail_recommendation : {Lit("concise"), Lit("detailed")},
               direction_suggestion : {Null, Lit("maintain"), Lit("reset")}]]

ControlsInit ==
    /\ Idle
    /\ pc = "controls_ready"
    /\ ein \in ControlInputs
    /\ eout = <<>>

\* const controls = resolveFinalControls(payload, engine); llmInput.input
\* carries controls.tone, controls.detail and controls.direction
ResolveControls ==
    /\ pc = "controls_ready"
    /\ eout' = resolveFinalControls(ein.inp, ein.engine)
    /\ pc' = "controls_done"
    /\ UNCHANGED <<handler, req, calls, nextSrc, failed, stage, resp, ein, cvars>>

ControlsNext == ResolveControls

SpecControls == ControlsInit /\ [][ControlsNext]_vars

\* C33: each control sent to the generator is the user's selection when
\* there is one and the engine's recommendation otherwise; direction is
\* "reset" when neither the user nor the engine gives one.
UserControlsWin ==
    pc = "controls_done" =>
        /\ eout.tone = (IF IsEmptyValue(ein.inp.tone)
                        THEN ein.engine.tone_recommendation ELSE ein.inp.tone)
        /\ eout.detail = (IF IsEmptyValue(ein.inp.detail)
                          THEN ein.engine.detail_recommendation ELSE ein.inp.detail)
        /\ eout.direction =
              (IF ~IsEmptyValue(ein.inp.direction) THEN ein.inp.direction
               ELSE IF ~IsEmptyValue(ein.engine.direction_suggestion)
               THEN ein.engine.direction_suggestion
               ELSE Lit("reset"))

\* C33 witness: the user chose a tone against the engine's, left detail to
\* the engine, and nobody gave a direction.
UserToneEngineDetailResetDirection ==
    /\ pc = "controls_done"
    /\ ein.inp.tone = Lit("warm") /\ ein.engine.tone_recommendation = Lit("formal")
    /\ eout.tone = Lit("warm")
    /\ ein.inp.detail = Null /\ eout.detail = Lit("detailed")
    /\ ein.inp.direction = Str(<<>>, 0) /\ ein.engine.direction_suggestion = Null
    /\ eout.direction = Lit("reset")

-----------------------------------------------------------------------------
(* The prompt cache of promptLoader.js over several keys: a Map, kept here
   as the sequence of its entries in insertion order, written by
   boundedCacheSet at the end of each load that fetched *)

\* MAX_CACHE_ENTRIES, 60 in promptLoader.js, scaled to keep the key space small
MaxCacheEntries == 2
LruKeys == 1..(MaxCacheEntries + 1)

KeysOf(c) == {c[i].key : i \in 1..Len(c)}
IndexOf(c, k) == CHOOSE i \in 1..Len(c) : c[i].key = k

\* the first entry, in insertion order, with the smallest at
Oldest(c) ==
    CHOOSE i \in 1..Len(c) :
        \A j \in 1..Len(c) : c[j].at > c[i].at \/ (c[j].at = c[i].at /\ j >= i)

Drop(c, i) == [j \in 1..(Len(c) - 1) |-> IF j < i THEN c[j] ELSE c[j + 1]]

\* Map.set: an existing key keeps its place, a new one goes last
MapSet(c, k, at) ==
    IF k \in KeysOf(c) THEN [c EXCEPT ![IndexOf(c, k)] = [key |-> k, at |-> at]]
    ELSE Append(c, [key |-> k, at |-> at])

\* boundedCacheSet that never evicts
boundedCacheSetUnbounded(c, k, at) == MapSet(c, k, at)

boundedCacheSet(c, k, at) ==
    IF Len(c) >= MaxCacheEntries /\ k \notin KeysOf(c)
    THEN MapSet(Drop(c, Oldest(c)), k, at)
    ELSE MapSet(c, k, at)

LruIdle == [pc |-> "idle", key |-> 0, at |-> 0, evicted |-> 0]

LruInit ==
    /\ handler = "insight"
    /\ req = <<>> /\ pc = "lru"
    /\ calls = 0 /\ nextSrc = 1 /\ failed = {} /\ stage = <<>> /\ resp = <<>>
    /\ ein = <<>> /\ eout = <<>>
    /\ now = 0 /\ cache = <<>> /\ remote = "v1"
    /\ loads = [p \in Loads |-> LruIdle]

\* loadPrompt up to its fetch: a fresh entry is returned, anything else fetched
LruLookup(p, k) ==
    /\ loads[p].pc = "idle"
    /\ IF k \in KeysOf(cache) /\ (now - cache[IndexOf(cache, k)].at) < TtlMs
       THEN loads' = loads
       ELSE loads' = [loads EXCEPT ![p] = [pc |-> "fetching", key |-> k, at |-> now, evicted |-> 0]]
    /\ UNCHANGED <<now, cache, remote, hvars>>

\* loadPrompt after its fetch: a failure with nothing cached throws, text
\* in hand is stored under the time the load began
LruFetchDone(p) ==
    /\ loads[p].pc = "fetching"
    /\ \E ok \in BOOLEAN :
         IF ok
         THEN /\ cache' = boundedCacheSet(cache, loads[p].key, loads[p].at)
              /\ loads' = [loads EXCEPT ![p] =
                     [LruIdle EXCEPT !.evicted =
                         IF Len(cache) >= MaxCacheEntries /\ loads[p].key \notin KeysOf(cache)
                         THEN cache[Oldest(cache)].key ELSE 0]]
         ELSE /\ cache' = cache
              /\ loads' = [loads EXCEPT ![p] = LruIdle]
    /\ UNCHANGED <<now, remote, hvars>>

\* the clock, run to half of MaxNow here
LruTick ==
    /\ 2 * now < MaxNow
    /\ now' = now + 1
    /\ UNCHANGED <<cache, remote, loads, hvars>>

LruNext ==
    \/ \E p \in Loads, k \in LruKeys : LruLookup(p, k)
    \/ \E p \in Loads : LruFetchDone(p)
    \/ LruTick

SpecLru == LruInit /\ [][LruNext]_vars

\* C34: the prompt cache never holds more than MaxCacheEntries entries, one
\* per key, and a write of a new key into a full cache removes exactly one of
\* the entries that were there.
CacheBounded ==
    /\ [](Len(cache) <= MaxCacheEntries /\ Cardinality(KeysOf(cache)) = Len(cache))
    /\ [][(Len(cache) = MaxCacheEntries /\ ~(KeysOf(cache') \subseteq KeysOf(cache))) =>
            /\ Len(cache') = MaxCacheEntries
            /\ Cardinality(KeysOf(cache) \ KeysOf(cache')) = 1]_vars

\* C34 witness: a load wrote a new key into the full cache and its oldest
\* entry was evicted.
FullCacheEvicted ==
    /\ pc = "lru" /\ Len(cache) = MaxCacheEntries
    /\ \E p \in Loads : loads[p].evicted # 0 /\ loads[p].evicted \notin KeysOf(cache)

-----------------------------------------------------------------------------
(* The guideline map of the two-call handler: _guidelineCache and
   _guidelineCacheAt, loadGuidelineMap serving two requests.  A load runs to
   its fetch without interruption, is suspended on the fetch, and finishes in
   one step when the fetch settles. *)

GuideMap(relationship, intent, rev) == [relationship |-> relationship, intent |-> intent, rev |-> rev]

\* bodies the configured URL may serve: two revisions of a full map, a map
\* without intent, and a map whose relationship is the empty string
GuidelineBodies ==
    {GuideMap(Nested("relationship", v), Nested("intent", v), v) : v \in {1, 2}}
        \cup {GuideMap(Nested("relationship", 3), Undef, 3),
              GuideMap(Str(<<>>, 4), Nested("intent", 4), 4)}

\* !json?.relationship || !json?.intent
InvalidGuideMap(map) == ~Truthy(map.relationship) \/ ~Truthy(map.intent)

NoGuideMap == <<>>

GuideLoad == [pc |-> "idle", at |-> 0, got |-> "", result |-> NoGuideMap, before |-> <<>>]

GuidelineInit ==
    /\ handler = "twoCall"
    /\ req = <<>> /\ pc = "guideline"
    /\ calls = 0 /\ nextSrc = 1 /\ failed = {} /\ stage = <<>> /\ resp = <<>>
    /\ ein = <<>> /\ eout = <<>>
    /\ now = 0
    /\ cache = [map |-> NoGuideMap, at |-> 0]
    /\ remote \in GuidelineBodies
    /\ loads = [p \in Loads |-> GuideLoad]

\* loadGuidelineMap up to its await of fetch
GuidelineLookup(p) ==
    /\ pc = "guideline" /\ loads[p].pc = "idle"
    /\ IF cache.map # NoGuideMap /\ now - cache.at < TtlMs
       THEN loads' = [loads EXCEPT ![p] = [@ EXCEPT !.pc = "returned", !.got = "cache", !.result = cache.map]]
       ELSE loads' = [loads EXCEPT ![p] = [@ EXCEPT !.pc = "fetching", !.at = now]]
    /\ UNCHANGED <<now, cache, remote, hvars>>

\* what the fetch settles with: a rejection, a status that is not ok, a body
\* that is not JSON, or the body at the URL
GuidelineOutcomes == {"rejected", "status", "not_json", "body"}

\* loadGuidelineMap that stores the body before it looks at it
GuidelineFetchDoneStoreFirst(p) ==
    /\ pc = "guideline" /\ loads[p].pc = "fetching"
    /\ \E o \in GuidelineOutcomes :
         LET l == [loads[p] EXCEPT !.got = o, !.before = cache]
         IN IF o # "body"
            THEN /\ loads' = [loads EXCEPT ![p] = [l EXCEPT !.pc = "threw"]]
                 /\ cache' = cache
            ELSE /\ cache' = [map |-> remote, at |-> l.at]
                 /\ loads' = [loads EXCEPT ![p] =
                        IF InvalidGuideMap(remote)
                        THEN [l EXCEPT !.pc = "threw", !.got = "invalid"]
                        ELSE [l EXCEPT !.pc = "returned", !.result = remote]]
    /\ UNCHANGED <<now, remote, hvars>>

\* loadGuidelineMap from the settled fetch to its return or throw
GuidelineFetchDone(p) ==
    /\ pc = "guideline" /\ loads[p].pc = "fetching"
    /\ \E o \in GuidelineOutcomes :
         LET l == [loads[p] EXCEPT !.got = o, !.before = cache]
         IN IF o # "body"
            THEN /\ loads' = [loads EXCEPT ![p] = [l EXCEPT !.pc = "threw"]]
                 /\ cache' = cache
            ELSE IF InvalidGuideMap(remote)
            THEN /\ loads' = [loads EXCEPT ![p] = [l EXCEPT !.pc = "threw", !.got = "invalid"]]
                 /\ cache' = cache
            ELSE /\ cache' = [map |-> remote, at |-> l.at]
                 /\ loads' = [loads EXCEPT ![p] = [l EXCEPT !.pc = "returned", !.result = remote]]
    /\ UNCHANGED <<now, remote, hvars>>

\* the next request
GuidelineAgain(p) ==
    /\ pc = "guideline" /\ loads[p].pc \in {"returned", "threw"}
    /\ loads' = [loads EXCEPT ![p] = GuideLoad]
    /\ UNCHANGED <<now, cache, remote, hvars>>

GuidelineTick ==
    /\ pc = "guideline" /\ now < MaxNow
    /\ now' = now + 1
    /\ UNCHANGED <<cache, remote, loads, hvars>>

\* the body at the URL is replaced by the next of the bodies; every body
\* can follow every other between two fetches
GuidelinePublish ==
    /\ pc = "guideline"
    /\ \E b \in GuidelineBodies :
          /\ b.rev = (remote.rev % Cardinality(GuidelineBodies)) + 1
          /\ remote' = b
    /\ UNCHANGED <<now, cache, loads, hvars>>

GuidelineNext ==
    \/ \E p \in Loads : GuidelineLookup(p)
    \/ \E p \in Loads : GuidelineFetchDone(p)
    \/ \E p \in Loads : GuidelineAgain(p)
    \/ GuidelineTick
    \/ GuidelinePublish

SpecGuideline == GuidelineInit /\ [][GuidelineNext]_vars

\* C39: the guideline cache is empty or holds a map with both relationship
\* and intent, and a load that throws (fetch rejected, status not ok, body
\* not JSON, or a body missing either key) leaves the cached map and its
\* timestamp as they were.
GuidelineCacheValidAndKept ==
    /\ [](cache.map # NoGuideMap =>
            Truthy(cache.map.relationship) /\ Truthy(cache.map.intent))
    /\ [][\A p \in Loads :
            (loads[p].pc = "fetching" /\ loads'[p].pc = "threw") => cache' = cache]_vars

\* C39 witness: with a map cached earlier and expired, a refetch got a body
\* without intent and threw, and the cache still holds the earlier map and
\* timestamp.
InvalidRefetchKeptCache ==
    /\ pc = "guideline"
    /\ \E p \in Loads :
          /\ loads[p].pc = "threw" /\ loads[p].got = "invalid"
          /\ loads[p].before.map # NoGuideMap
          /\ cache = loads[p].before
          /\ cache.at < loads[p].at
    /\ ~Truthy(remote.intent)

=============================================================================
